---- MODULE Spec2Model ----
(***************************************************************************)
(* A state-machine model of the doxstorr storage and transaction engine.   *)
(*                                                                         *)
(* Part 1: Transaction / TransactionManager (src/transaction.py) driven by *)
(*         client tasks of the asyncio event loop.                         *)
(*                                                                         *)
(* The event loop is single threaded and cooperative: a task runs from one *)
(* suspension point (an await that really waits) to the next without being *)
(* interleaved, so every action below is one such run.                     *)
(***************************************************************************)
EXTENDS Integers, Sequences, FiniteSets, TLC

\* ------------------------------------------------------------------ bounds
NumClients == 2
MaxOps == 2
MaxTxId == 2
NumTasks == 3
NumWorkers == 2
MaxBlocks == 2
MaxPayload == 3
MaxCalls == 4
MaxObjs == 2
MaxQueue == 1
MaxTime == 2
MaxLines == 3
MaxOrder == 2
MaxKey == 4
MaxCollections == 3
MaxCapacity == 2
MaxLruKey == 3
MaxLruOps == 4
MaxIdxCalls == 3
MaxIdxKey == 2
MaxText == 3
\* async_update_queue_size, scaled down
QueueSize == 1
MaxEntries == 2
MaxPointers == 4
\* the 16 pointers of a direct list, scaled down
DirectCapacity == 2
\* LRUCache.capacity, scaled down from the default of 100
CacheCapacity == 1
\* BlockStore.block_size, scaled down from the 4 KB / 64 KB / 1 MB of the stores
BlockSize == 2

Clients == 1..NumClients
Locks == {"A", "B"}
TxIds == 1..MaxTxId

\* ------------------------------------------------------------------- state
VARIABLES
    \* TransactionManager
    next_transaction_id,   \* self.next_transaction_id
    transactions,          \* keys of self.transactions
    \* Transaction objects, by id
    operations,            \* self.operations / self.rollback_operations (appended in lockstep)
    locks,                 \* self.locks
    \* asyncio.Lock objects handed to add_operation
    locked,                \* Lock._locked
    waiters,               \* Lock._waiters (FIFO of suspended tasks)
    \* client tasks
    pc,                    \* where the task is suspended
    cur,                   \* the Transaction the task works on (0: none)
    pos,                   \* index of the apply / undo in flight
    inWaitFor,             \* the task is inside asyncio.wait_for of run_transaction
    result,                \* what run_transaction returned or raised to its caller
    \* history (observation only)
    issued,                \* ids returned by start_transaction, in order
    applyLog,              \* per transaction: indices of the applies called, in call order
    undoLog,               \* per transaction: one sequence of undo indices per rollback() call
    acqCount,              \* per transaction and lock: acquires completed in add_operation
    relCount,              \* per transaction and lock: lock.release() calls that returned
    relErr,                \* per transaction: a lock.release() raised RuntimeError
    endedBy                \* per transaction: "none" | "commit" | "abort" | "timeout"

VARIABLES
    \* EnhancedFilestore and its document store
    docs,                  \* document_store.data: the document held by each id, or Absent
    doc_next_id,           \* document_store.next_id
    fkind,                 \* the facade operation the task is in ("none": not in the facade)
    freq,                  \* the operations the facade call has staged or tried to stage
    fres,                  \* what the facade operation returned or raised to its caller
    snap                   \* docs as they were when the facade operation was called

VARIABLES
    \* ReaderWriterLock and the tasks that use it
    readers,               \* self._readers
    writers,               \* self._writers
    read_ready,            \* self._read_ready (asyncio.Event flag)
    wl_locked,             \* self._write_lock._locked
    wl_waiters,            \* self._write_lock._waiters
    rwpc                   \* where each task is in the lock's protocol

txVars ==
    <<next_transaction_id, transactions, operations, locks, locked, waiters,
      pc, cur, pos, inWaitFor, result,
      issued, applyLog, undoLog, acqCount, relCount, relErr, endedBy>>

facVars == <<docs, doc_next_id, fkind, freq, fres, snap>>

rwVars == <<readers, writers, read_ready, wl_locked, wl_waiters, rwpc>>

VARIABLES
    \* BlockStore and the threads asyncio.to_thread runs its methods on
    free_blocks,           \* self.free_blocks
    file,                  \* the store's file: its blocks, in order
    bpc,                   \* where each thread is in _allocate_block_sync
    btell,                 \* the f.tell() the thread read (bytes)
    held,                  \* the slots a caller was handed and has not freed
    alloc_ret,             \* what the thread's last allocate_block did and returned
    freed_unused,          \* history: slots freed and not handed out again, oldest first
    ncalls,                \* history: allocate_block calls made so far
    \* a payload written across blocks and read back
    wpayload,              \* the bytes to store
    wblocks,               \* the block ids written so far, in order
    rdata,                 \* the bytes reassembled from the blocks
    dstep                  \* where the write / read-back is

blkVars ==
    <<free_blocks, file, bpc, btell, held, alloc_ret, freed_unused, ncalls,
      wpayload, wblocks, rdata, dstep>>

VARIABLES
    \* JSONFilestore, its cache and its compression queue
    heap,                  \* the document dicts, by identity
    sdata,                 \* self.data: the dict held by each id (0: no entry)
    snext_id,              \* self.next_id
    cache,                 \* self.cache.cache
    cqueue,                \* self.compression_queue
    now,                   \* int(time.time())
    deleted,               \* history: ids whose latest create / delete was a delete
    sres                   \* the latest call on the store and what it returned

storeVars == <<heap, sdata, snext_id, cache, cqueue, now, deleted, sres>>

VARIABLES
    \* Journal
    journal,               \* the lines of the journal file
    jres                   \* what the latest recover() did

jrnVars == <<journal, jres>>

VARIABLES
    \* BPlusTree
    tnodes,                \* the BPlusNode objects
    troot,                 \* self.root
    torder,                \* self.order (0: no tree constructed yet)
    ttried,                \* history: keys passed to insert
    tinserted,             \* history: keys whose insert returned
    tres                   \* the latest call on the tree and its outcome

treeVars == <<tnodes, troot, torder, ttried, tinserted, tres>>

VARIABLES
    \* BlockPointerTable and the tasks that call it
    pt_entries,            \* self.entries
    pt_indirect,           \* self.indirect_entries
    pt_holder,             \* the task that holds self.lock (0: unlocked)
    ptpc,                  \* where each task is
    pt_issued,             \* history: per entry, the pointers passed to add_pointer
    ptres                  \* the latest get_pointers that returned

ptrVars == <<pt_entries, pt_indirect, pt_holder, ptpc, pt_issued, ptres>>

VARIABLES
    \* IndexManager and the tasks that call it
    im_config,             \* self.config, and whether the manager was constructed
    im_indexes,            \* self.indexes: name -> keys of the tree's leaf, filter
    im_ref_indexes,        \* self.ref_indexes
    im_text_indexes,       \* self.text_indexes: name -> word -> posting list
    im_queue,              \* self.async_update_queue
    im_putters,            \* the calls suspended in Queue.put, oldest first
    im_worker,             \* the task of _process_async_updates
    im_acked,              \* history: (name, key, value) of each insert into a tree that returned
    im_calls,              \* history: number of calls that changed the manager
    imres                  \* outcome of the latest call (query: its tokens; full: it
                           \* needed the queue while the queue was full)

idxVars == <<im_config, im_indexes, im_ref_indexes, im_text_indexes, im_queue,
             im_putters, im_worker, im_acked, im_calls, imres>>

VARIABLES
    \* an LRUCache used on its own
    lru_cap,               \* self.capacity (0: not constructed)
    lru,                   \* self.cache, least recently used first, <<key, value>> pairs
    lru_used,              \* reference: per key, the time of its latest get-hit or put
    lru_time,              \* reference: number of get-hits and puts so far
    lrures                 \* outcome of the latest call

lruVars == <<lru_cap, lru, lru_used, lru_time, lrures>>

VARIABLES
    \* CollectionMetadataFilestore
    col_data,              \* self.data: collection id -> descriptor, or NoCollection
    col_next_id,           \* self.next_id
    colres                 \* outcome of the latest call (existed: the name was taken)

colVars == <<col_data, col_next_id, colres>>

VARIABLES
    \* EnhancedFilestore.create_collection
    ccres                  \* the latest call: its outcome, and the collection store and
                           \* the names of the keyed indexes as they were when it was called

ccVars == <<ccres>>

\* the components that are exercised on their own
libVars == <<blkVars, storeVars, jrnVars, treeVars, ptrVars, idxVars, lruVars, colVars, ccVars>>

vars == <<txVars, facVars, rwVars, libVars>>

\* -------------------------------------------------------------- exceptions
\* The class hierarchy of src/filestore_exceptions.py plus the builtins used.
Parent(e) ==
    CASE e = "TransactionAbortedError" -> "TransactionException"
      [] e = "DeadlockDetectedError" -> "TransactionException"
      [] e = "TransactionException" -> "FilestoreException"
      [] e = "DocumentNotFoundError" -> "DocumentException"
      [] e = "DocumentAlreadyExistsError" -> "DocumentException"
      [] e = "DocumentValidationError" -> "DocumentException"
      [] e = "DocumentException" -> "FilestoreException"
      [] e = "CollectionNotFoundError" -> "CollectionException"
      [] e = "CollectionException" -> "FilestoreException"
      [] e = "CollectionAlreadyExistsError" -> "CollectionException"
      [] e = "SchemaException" -> "FilestoreException"
      [] e = "IndexException" -> "FilestoreException"
      [] e = "StorageException" -> "FilestoreException"
      [] e = "FilestoreException" -> "Exception"
      [] e = "ValueError" -> "Exception"
      [] e = "TypeError" -> "Exception"
      [] e = "RuntimeError" -> "Exception"
      [] e = "TimeoutError" -> "Exception"
      [] e = "Exception" -> "BaseException"
      [] e = "CancelledError" -> "BaseException"
      [] OTHER -> "object"

RECURSIVE IsInstance(_, _)
IsInstance(e, cls) ==
    IF e = cls THEN TRUE
    ELSE IF e \in {"object", "ok", "none"} THEN FALSE
    ELSE IsInstance(Parent(e), cls)

\* _handle_deadlock raises DeadlockDetectedError inside its own try block,
\* whose `except Exception` re-raises it as a plain TransactionException.
HandleDeadlockRaises ==
    IF IsInstance("DeadlockDetectedError", "Exception")
    THEN "TransactionException"
    ELSE "DeadlockDetectedError"

\* What run_transaction raises when _run_transaction ended with exception e
\* that is not the TimeoutError of wait_for: `except Exception` wraps it.
RunTransactionRaises(e) ==
    IF IsInstance(e, "Exception") THEN "TransactionException" ELSE e

\* What _run_transaction raises after its rollback of a failed execute().
RunInnerRaises == "TransactionAbortedError"

\* ------------------------------------------------------------ asyncio.Lock
\* Lock.acquire returns at once, without suspending, only when the lock is
\* free and nobody is queued for it.
CanAcquireNow_NoWait(L) == TRUE

CanAcquireNow(L) == ~locked[L] /\ waiters[L] = <<>>

\* release_locks: `for lock in self.locks: lock.release()`.  release() of a
\* lock that is not locked raises RuntimeError and ends the loop.
RECURSIVE ReleaseAll(_, _, _)
ReleaseAll(ls, lk, done) ==
    IF ls = <<>> THEN [locked |-> lk, done |-> done, err |-> FALSE]
    ELSE IF ~lk[Head(ls)] THEN [locked |-> lk, done |-> done, err |-> TRUE]
    ELSE ReleaseAll(Tail(ls), [lk EXCEPT ![Head(ls)] = FALSE], Append(done, Head(ls)))

LocksToRelease_OnlyFirst(t) == IF locks[t] = <<>> THEN <<>> ELSE <<Head(locks[t])>>

LocksToRelease(t) == locks[t]

RECURSIVE CountIn(_, _)
CountIn(s, x) ==
    IF s = <<>> THEN 0 ELSE (IF Head(s) = x THEN 1 ELSE 0) + CountIn(Tail(s), x)

\* -------------------------------------------------------------- Transaction
NOps(t) == Len(operations[t])

\* execute(): `for operation in self.operations`
ExecuteOrder(t) == [i \in 1..NOps(t) |-> i]

RollbackOrder_Forward(t) == [i \in 1..NOps(t) |-> i]

\* rollback(): `for rollback_operation in reversed(self.rollback_operations)`
RollbackOrder(t) == [i \in 1..NOps(t) |-> NOps(t) + 1 - i]

FreshTransactionId_FromTableSize == Cardinality(transactions) + 1

\* start_transaction: `transaction_id = self.next_transaction_id`
FreshTransactionId == next_transaction_id

\* ------------------------------------------------------- pieces of actions
Release(t) == ReleaseAll(LocksToRelease(t), locked, <<>>)

\* the lock state after release_locks() of transaction t ended as r
SetLockState(t, r) ==
    /\ locked' = r.locked
    /\ relCount' = [relCount EXCEPT ![t] = [L \in Locks |-> @[L] + CountIn(r.done, L)]]
    /\ relErr' = [relErr EXCEPT ![t] = @ \/ r.err]

\* Transaction.rollback() is entered: a new pass over the undo actions, the
\* task suspends in the first `await rollback_operation()`.
EnterRollback(c, t) ==
    /\ undoLog' = [undoLog EXCEPT ![t] = Append(@, <<RollbackOrder(t)[1]>>)]
    /\ pc' = [pc EXCEPT ![c] = "undoing"]
    /\ pos' = [pos EXCEPT ![c] = 1]

\* run_transaction returns to (or raises into) its caller
Leave(c, t, res, how) ==
    /\ pc' = [pc EXCEPT ![c] = "done"]
    /\ result' = [result EXCEPT ![c] = res]
    /\ endedBy' = [endedBy EXCEPT ![t] = how]
    /\ inWaitFor' = [inWaitFor EXCEPT ![c] = FALSE]

\* execute() continues after k applies returned: the next apply is called, or
\* the loop is over and _commit_transaction runs (release_locks, del).  A
\* failing release_locks is caught in _run_transaction, which rolls back.
AfterApply(c, t, k) ==
    IF k < NOps(t)
    THEN /\ pos' = [pos EXCEPT ![c] = k + 1]
         /\ applyLog' = [applyLog EXCEPT ![t] = Append(@, ExecuteOrder(t)[k + 1])]
         /\ pc' = [pc EXCEPT ![c] = "applying"]
         /\ UNCHANGED <<locked, relCount, relErr, transactions, result, endedBy,
                        inWaitFor, undoLog>>
    ELSE LET r == Release(t) IN
         /\ SetLockState(t, r)
         /\ UNCHANGED applyLog
         /\ IF r.err
            THEN /\ EnterRollback(c, t)
                 /\ UNCHANGED <<transactions, result, endedBy, inWaitFor>>
            ELSE /\ transactions' = transactions \ {t}
                 /\ Leave(c, t, "ok", "commit")
                 /\ UNCHANGED <<pos, undoLog>>

\* rollback() continues after j undo actions of this pass returned (or raised:
\* the exception is logged and dropped): the next undo is called, or the loop
\* is over and _rollback_transaction goes on (release_locks, del), after
\* which _run_transaction raises TransactionAbortedError (inside wait_for) or
\* _handle_deadlock raises (after the timeout).
AfterUndo(c, t, j) ==
    IF j < NOps(t)
    THEN /\ pos' = [pos EXCEPT ![c] = j + 1]
         /\ undoLog' = [undoLog EXCEPT ![t] =
                [@ EXCEPT ![Len(@)] = Append(@, RollbackOrder(t)[j + 1])]]
         /\ pc' = [pc EXCEPT ![c] = "undoing"]
         /\ UNCHANGED <<locked, relCount, relErr, transactions, result, endedBy,
                        inWaitFor>>
    ELSE LET r == Release(t) IN
         /\ SetLockState(t, r)
         /\ transactions' = IF r.err THEN transactions ELSE transactions \ {t}
         /\ UNCHANGED <<pos, undoLog>>
         /\ IF inWaitFor[c]
            THEN Leave(c, t,
                       RunTransactionRaises(IF r.err THEN "TransactionException"
                                            ELSE RunInnerRaises),
                       "abort")
            ELSE Leave(c, t,
                       IF r.err THEN "TransactionException" ELSE HandleDeadlockRaises,
                       "timeout")

\* ---------------------------------------------------------------- actions
\* TransactionManager.start_transaction (no await inside: one step)
StartTransaction(c) ==
    /\ pc[c] = "idle"
    /\ next_transaction_id <= MaxTxId
    /\ LET tid == FreshTransactionId IN
       /\ next_transaction_id' = next_transaction_id + 1
       /\ transactions' = transactions \cup {tid}
       /\ operations' = [operations EXCEPT ![tid] = <<>>]
       /\ locks' = [locks EXCEPT ![tid] = <<>>]
       /\ issued' = Append(issued, tid)
       /\ cur' = [cur EXCEPT ![c] = tid]
       /\ applyLog' = [applyLog EXCEPT ![tid] = <<>>]
       /\ undoLog' = [undoLog EXCEPT ![tid] = <<>>]
       /\ acqCount' = [acqCount EXCEPT ![tid] = [L \in Locks |-> 0]]
       /\ relCount' = [relCount EXCEPT ![tid] = [L \in Locks |-> 0]]
       /\ relErr' = [relErr EXCEPT ![tid] = FALSE]
       /\ endedBy' = [endedBy EXCEPT ![tid] = "none"]
    /\ pc' = [pc EXCEPT ![c] = "open"]
    /\ result' = [result EXCEPT ![c] = "none"]
    /\ UNCHANGED <<locked, waiters, pos, inWaitFor>>

\* Transaction.add_operation: the three appends, then `await lock.acquire()`
AddOperation(c, op, L) ==
    /\ pc[c] = "open"
    /\ NOps(cur[c]) < MaxOps
    /\ LET t == cur[c] IN
       /\ operations' = [operations EXCEPT ![t] = Append(@, op)]
       /\ locks' = [locks EXCEPT ![t] = Append(@, L)]
       /\ IF CanAcquireNow(L)
          THEN /\ locked' = [locked EXCEPT ![L] = TRUE]
               /\ acqCount' = [acqCount EXCEPT ![t][L] = @ + 1]
               /\ UNCHANGED <<waiters, pc>>
          ELSE /\ waiters' = [waiters EXCEPT ![L] = Append(@, c)]
               /\ pc' = [pc EXCEPT ![c] = "lockwait"]
               /\ UNCHANGED <<locked, acqCount>>
    /\ UNCHANGED <<next_transaction_id, transactions, cur, pos, inWaitFor, result,
                   issued, applyLog, undoLog, relCount, relErr, endedBy>>

\* the task suspended in lock.acquire() is resumed: release() woke the first
\* waiter of the lock and left it unlocked
LockAcquired(c) ==
    /\ pc[c] = "lockwait"
    /\ LET t == cur[c]
           L == locks[t][Len(locks[t])]
       IN
       /\ ~locked[L]
       /\ waiters[L] # <<>> /\ Head(waiters[L]) = c
       /\ waiters' = [waiters EXCEPT ![L] = Tail(@)]
       /\ locked' = [locked EXCEPT ![L] = TRUE]
       /\ acqCount' = [acqCount EXCEPT ![t][L] = @ + 1]
    /\ pc' = [pc EXCEPT ![c] = "open"]
    /\ UNCHANGED <<next_transaction_id, transactions, operations, locks, cur, pos,
                   inWaitFor, result, issued, applyLog, undoLog, relCount, relErr,
                   endedBy>>

\* TransactionManager.run_transaction: wait_for(_run_transaction) is entered
\* and execute() runs to its first await (or, with no operation, to the end)
RunTransaction(c) ==
    /\ pc[c] = "open"
    /\ LET t == cur[c] IN
       IF NOps(t) > 0
       THEN /\ inWaitFor' = [inWaitFor EXCEPT ![c] = TRUE]
            /\ pos' = [pos EXCEPT ![c] = 1]
            /\ applyLog' = [applyLog EXCEPT ![t] = Append(@, ExecuteOrder(t)[1])]
            /\ pc' = [pc EXCEPT ![c] = "applying"]
            /\ UNCHANGED <<locked, relCount, relErr, transactions, result, endedBy,
                           undoLog>>
       ELSE /\ transactions' = transactions \ {t}
            /\ Leave(c, t, "ok", "commit")
            /\ UNCHANGED <<locked, relCount, relErr, pos, applyLog, undoLog>>
    /\ UNCHANGED <<next_transaction_id, operations, locks, waiters, cur, issued,
                   acqCount>>

\* the apply in flight returns: execute() goes on
ApplyReturn(c) ==
    /\ pc[c] = "applying"
    /\ AfterApply(c, cur[c], pos[c])
    /\ UNCHANGED <<next_transaction_id, operations, locks, waiters, cur, issued,
                   acqCount>>

\* the apply in flight raises: execute() raises TransactionAbortedError,
\* _run_transaction catches it and awaits _rollback_transaction
ApplyRaise(c) ==
    /\ pc[c] = "applying"
    /\ EnterRollback(c, cur[c])
    /\ UNCHANGED <<next_transaction_id, transactions, operations, locks, locked,
                   waiters, cur, inWaitFor, result, issued, applyLog, acqCount,
                   relCount, relErr, endedBy>>

\* the timer of wait_for fires while _run_transaction is suspended (in an
\* apply, or in an undo of the rollback that followed a failed apply):
\* CancelledError, which no `except Exception` of the module catches, unwinds
\* _run_transaction; run_transaction catches TimeoutError and awaits
\* _handle_deadlock, whose _rollback_transaction enters rollback() anew
Timeout(c) ==
    /\ pc[c] \in {"applying", "undoing"}
    /\ inWaitFor[c]
    /\ inWaitFor' = [inWaitFor EXCEPT ![c] = FALSE]
    /\ EnterRollback(c, cur[c])
    /\ UNCHANGED <<next_transaction_id, transactions, operations, locks, locked,
                   waiters, cur, result, issued, applyLog, acqCount, relCount,
                   relErr, endedBy>>

\* the undo in flight returns: rollback() goes on
UndoReturn(c) ==
    /\ pc[c] = "undoing"
    /\ AfterUndo(c, cur[c], pos[c])
    /\ UNCHANGED <<next_transaction_id, operations, locks, waiters, cur, issued,
                   applyLog, acqCount>>

\* the undo in flight raises: rollback() logs the error and goes on
UndoRaise(c) ==
    /\ pc[c] = "undoing"
    /\ AfterUndo(c, cur[c], pos[c])
    /\ UNCHANGED <<next_transaction_id, operations, locks, waiters, cur, issued,
                   applyLog, acqCount>>

\* the caller of run_transaction is done with the transaction and drops the
\* Transaction object (and what was observed of it)
Return(c) ==
    /\ pc[c] = "done"
    /\ pc' = [pc EXCEPT ![c] = "idle"]
    /\ cur' = [cur EXCEPT ![c] = 0]
    /\ pos' = [pos EXCEPT ![c] = 0]
    /\ result' = [result EXCEPT ![c] = "none"]
    /\ LET t == cur[c] IN
       /\ operations' = [operations EXCEPT ![t] = <<>>]
       /\ locks' = [locks EXCEPT ![t] = <<>>]
       /\ applyLog' = [applyLog EXCEPT ![t] = <<>>]
       /\ undoLog' = [undoLog EXCEPT ![t] = <<>>]
       /\ acqCount' = [acqCount EXCEPT ![t] = [L \in Locks |-> 0]]
       /\ relCount' = [relCount EXCEPT ![t] = [L \in Locks |-> 0]]
       /\ relErr' = [relErr EXCEPT ![t] = FALSE]
       /\ endedBy' = [endedBy EXCEPT ![t] = "none"]
    /\ UNCHANGED <<next_transaction_id, transactions, locked, waiters, inWaitFor,
                   issued>>

\* an operation whose apply and undo are opaque callables
GenericOp == [kind |-> "op", doc |-> 0, old |-> 0]

TxInit ==
    /\ next_transaction_id = 1
    /\ transactions = {}
    /\ operations = [t \in TxIds |-> <<>>]
    /\ locks = [t \in TxIds |-> <<>>]
    /\ locked = [L \in Locks |-> FALSE]
    /\ waiters = [L \in Locks |-> <<>>]
    /\ pc = [c \in Clients |-> "idle"]
    /\ cur = [c \in Clients |-> 0]
    /\ pos = [c \in Clients |-> 0]
    /\ inWaitFor = [c \in Clients |-> FALSE]
    /\ result = [c \in Clients |-> "none"]
    /\ issued = <<>>
    /\ applyLog = [t \in TxIds |-> <<>>]
    /\ undoLog = [t \in TxIds |-> <<>>]
    /\ acqCount = [t \in TxIds |-> [L \in Locks |-> 0]]
    /\ relCount = [t \in TxIds |-> [L \in Locks |-> 0]]
    /\ relErr = [t \in TxIds |-> FALSE]
    /\ endedBy = [t \in TxIds |-> "none"]

(***************************************************************************)
(* Part 2: the facade (src/enhanced_filestore.py) over the transaction     *)
(* manager and the document store.                                         *)
(***************************************************************************)
Absent == "absent"

DocIds == {1, 2}

\* the lock that guards document d
DocLock(d) == IF d = 1 THEN "A" ELSE "B"

\* the tasks that call the facade
FacadeClients == {1}

\* transaction_types.Operation as the caller passes it (the data of an ADD or
\* UPDATE is the document "new"); "OTHER" is a type that is none of the three
Requests ==
    {[type |-> "ADD", doc_id |-> 0], [type |-> "OTHER", doc_id |-> 0]}
    \cup {[type |-> ty, doc_id |-> d] : ty \in {"UPDATE", "DELETE"}, d \in DocIds}

\* the except clauses of the four public operations
Passes(e, classes) == \E k \in classes : IsInstance(e, k)

AddDocumentRaises(e) ==
    IF Passes(e, {"CollectionNotFoundError", "DocumentValidationError",
                  "TransactionAbortedError"})
    THEN e
    ELSE IF IsInstance(e, "Exception") THEN "DocumentException" ELSE e

UpdateDocumentRaises(e) ==
    IF Passes(e, {"DocumentNotFoundError", "DocumentValidationError",
                  "TransactionAbortedError"})
    THEN e
    ELSE IF IsInstance(e, "Exception") THEN "DocumentException" ELSE e

DeleteDocumentRaises(e) ==
    IF Passes(e, {"DocumentNotFoundError", "TransactionAbortedError"})
    THEN e
    ELSE IF IsInstance(e, "Exception") THEN "DocumentException" ELSE e

AtomicTransactionRaises(e) ==
    IF Passes(e, {"TransactionAbortedError"})
    THEN e
    ELSE IF IsInstance(e, "Exception") THEN "TransactionException" ELSE e

FacadeRaises(kind, e) ==
    CASE kind = "add" -> AddDocumentRaises(e)
      [] kind = "update" -> UpdateDocumentRaises(e)
      [] kind = "delete" -> DeleteDocumentRaises(e)
      [] OTHER -> AtomicTransactionRaises(e)

\* _add_document, _update_document, _delete_document: the mutation is made
\* while the operation is staged (the document store assigns the id that
\* _add_document returns), and its undo is recorded in the transaction.
\* atomic_transaction_execute raises ValueError for any other type.
StageOp(req) ==
    CASE req.type = "ADD" ->
            [err |-> "none",
             docs |-> [docs EXCEPT ![doc_next_id] = "new"],
             next |-> doc_next_id + 1,
             op |-> [kind |-> "ADD", doc |-> doc_next_id, old |-> Absent]]
      [] req.type = "UPDATE" /\ docs[req.doc_id] # Absent ->
            [err |-> "none",
             docs |-> [docs EXCEPT ![req.doc_id] = "new"],
             next |-> doc_next_id,
             op |-> [kind |-> "UPDATE", doc |-> req.doc_id, old |-> docs[req.doc_id]]]
      [] req.type = "DELETE" /\ docs[req.doc_id] # Absent ->
            [err |-> "none",
             docs |-> [docs EXCEPT ![req.doc_id] = Absent],
             next |-> doc_next_id,
             op |-> [kind |-> "DELETE", doc |-> req.doc_id, old |-> docs[req.doc_id]]]
      [] req.type \in {"UPDATE", "DELETE"} /\ docs[req.doc_id] = Absent ->
            [err |-> "DocumentNotFoundError", docs |-> docs, next |-> doc_next_id,
             op |-> GenericOp]
      [] OTHER ->
            [err |-> "ValueError", docs |-> docs, next |-> doc_next_id,
             op |-> GenericOp]

\* the undo recorded for a staged operation
UndoEffect(op, d) ==
    CASE op.kind = "ADD" -> [d EXCEPT ![op.doc] = Absent]
      [] op.kind \in {"UPDATE", "DELETE"} -> [d EXCEPT ![op.doc] = op.old]
      [] OTHER -> d

\* what the checks made before staging raise.  Each of them reads through
\* JSONFilestore.read, whose reader_lock wrapper evaluates
\* `self.locks.get(args[0], create=True)` on the dict `self.locks = {}`:
\* TypeError, every time.  get_collection (add_document) wraps it as
\* CollectionException, get_document (update_document) as StorageException,
\* and delete_document calls document_store.read itself.
\* atomic_transaction_execute makes no check before staging.
PreChecks(kind, req) ==
    CASE kind = "add" -> {"CollectionException"}
      [] kind = "update" -> {"StorageException"}
      [] kind = "delete" -> {"TypeError"}
      [] OTHER -> {"none"}

RequestsOf(kind) ==
    CASE kind = "add" -> {r \in Requests : r.type = "ADD"}
      [] kind = "update" -> {r \in Requests : r.type = "UPDATE"}
      [] kind = "delete" -> {r \in Requests : r.type = "DELETE"}
      [] OTHER -> Requests

\* a public operation is called: `transaction = await start_transaction()`
FacadeBegin(c, kind) ==
    /\ c \in FacadeClients
    /\ StartTransaction(c)
    /\ fkind' = [fkind EXCEPT ![c] = kind]
    /\ freq' = [freq EXCEPT ![c] = <<>>]
    /\ fres' = [fres EXCEPT ![c] = "none"]
    /\ snap' = [snap EXCEPT ![c] = docs]
    /\ UNCHANGED <<docs, doc_next_id>>

\* the next operation is staged; an exception ends the public operation in
\* its except clauses, where the transaction is neither rolled back nor
\* removed from the manager
FacadeStage(c, req, pre) ==
    /\ c \in FacadeClients
    /\ pc[c] = "open"
    /\ fkind[c] # "none"
    /\ req \in RequestsOf(fkind[c])
    /\ pre \in PreChecks(fkind[c], req)
    /\ fkind[c] # "atomic" => NOps(cur[c]) = 0
    /\ NOps(cur[c]) < MaxOps
    /\ req.type = "ADD" => doc_next_id \in DocIds
    /\ freq' = [freq EXCEPT ![c] = Append(@, req)]
    /\ LET st == StageOp(req)
           e == IF pre # "none" THEN pre ELSE st.err
       IN
       IF e # "none"
       THEN /\ fres' = [fres EXCEPT ![c] = FacadeRaises(fkind[c], e)]
            /\ pc' = [pc EXCEPT ![c] = "done"]
            /\ UNCHANGED <<docs, doc_next_id, fkind, snap>>
            /\ UNCHANGED <<next_transaction_id, transactions, operations, locks,
                           locked, waiters, cur, pos, inWaitFor, result, issued,
                           applyLog, undoLog, acqCount, relCount, relErr, endedBy>>
       ELSE /\ docs' = st.docs
            /\ doc_next_id' = st.next
            /\ AddOperation(c, st.op, DocLock(st.op.doc))
            /\ UNCHANGED <<fkind, fres, snap>>

\* `await self.transaction_manager.run_transaction(transaction)`
FacadeRun(c) ==
    /\ c \in FacadeClients
    /\ fkind[c] # "none"
    /\ fkind[c] # "atomic" => NOps(cur[c]) = 1
    /\ RunTransaction(c)
    /\ UNCHANGED facVars

\* the undo in flight returns, having undone its operation
FacadeUndoReturn(c) ==
    /\ c \in FacadeClients
    /\ UndoReturn(c)
    /\ docs' = UndoEffect(operations[cur[c]][RollbackOrder(cur[c])[pos[c]]], docs)
    /\ UNCHANGED <<doc_next_id, fkind, freq, fres, snap>>

\* run_transaction has returned or raised: the except clauses of the public
\* operation decide what its caller receives
FacadeReturn(c) ==
    /\ c \in FacadeClients
    /\ pc[c] = "done"
    /\ fres[c] = "none"
    /\ fres' = [fres EXCEPT ![c] =
            IF result[c] = "ok" THEN "ok" ELSE FacadeRaises(fkind[c], result[c])]
    /\ UNCHANGED <<docs, doc_next_id, fkind, freq, snap>>
    /\ UNCHANGED txVars

\* the caller goes on
FacadeFinish(c) ==
    /\ c \in FacadeClients
    /\ fres[c] # "none"
    /\ Return(c)
    /\ fkind' = [fkind EXCEPT ![c] = "none"]
    /\ freq' = [freq EXCEPT ![c] = <<>>]
    /\ fres' = [fres EXCEPT ![c] = "none"]
    /\ snap' = [snap EXCEPT ![c] = docs]
    /\ UNCHANGED <<docs, doc_next_id>>

FacInit ==
    /\ docs = [d \in DocIds |-> IF d = 1 THEN "old" ELSE Absent]
    /\ doc_next_id = 2
    /\ fkind = [c \in Clients |-> "none"]
    /\ freq = [c \in Clients |-> <<>>]
    /\ fres = [c \in Clients |-> "none"]
    /\ snap = [c \in Clients |-> [d \in DocIds |-> IF d = 1 THEN "old" ELSE Absent]]

FacadeNext ==
    \E c \in FacadeClients :
        \/ \E kind \in {"add", "update", "delete", "atomic"} :
                FacadeBegin(c, kind) /\ UNCHANGED <<rwVars, libVars>>
        \/ \E req \in Requests :
            \E pre \in PreChecks(fkind[c], req) :
                FacadeStage(c, req, pre) /\ UNCHANGED <<rwVars, libVars>>
        \/ FacadeRun(c) /\ UNCHANGED <<rwVars, libVars>>
        \/ ApplyReturn(c) /\ UNCHANGED <<facVars, rwVars, libVars>>
        \/ ApplyRaise(c) /\ UNCHANGED <<facVars, rwVars, libVars>>
        \/ Timeout(c) /\ UNCHANGED <<facVars, rwVars, libVars>>
        \/ FacadeUndoReturn(c) /\ UNCHANGED <<rwVars, libVars>>
        \/ UndoRaise(c) /\ UNCHANGED <<facVars, rwVars, libVars>>
        \/ FacadeReturn(c) /\ UNCHANGED <<rwVars, libVars>>
        \/ FacadeFinish(c) /\ UNCHANGED <<rwVars, libVars>>


(***************************************************************************)
(* Part 3: ReaderWriterLock (src/reader_writer_lock.py).                   *)
(***************************************************************************)
RWTasks == 1..NumTasks

\* Lock.acquire of _write_lock returns without suspending
WLFree == ~wl_locked /\ wl_waiters = <<>>

\* Event.set(): the flag goes up and every task suspended in wait() is made
\* ready; each goes on when it is next scheduled, whatever the flag is then
WakeAll(pcs) ==
    [q \in RWTasks |->
        IF pcs[q] = "ar_event" THEN "ar_woken"
        ELSE IF pcs[q] = "aw_event" THEN "aw_woken"
        ELSE pcs[q]]

\* acquire_read, under _write_lock: count the reader, the first one clears
\* the event; leaving `async with` releases _write_lock
ReadEnter(p) ==
    /\ readers' = readers + 1
    /\ read_ready' = IF readers + 1 = 1 THEN FALSE ELSE read_ready
    /\ wl_locked' = FALSE
    /\ rwpc' = [rwpc EXCEPT ![p] = "reading"]
    /\ UNCHANGED writers

\* release_read, under _write_lock: the last reader sets the event
ReadExit(p) ==
    /\ readers' = readers - 1
    /\ read_ready' = IF readers - 1 = 0 THEN TRUE ELSE read_ready
    /\ rwpc' = [(IF readers - 1 = 0 /\ ~read_ready THEN WakeAll(rwpc) ELSE rwpc)
                    EXCEPT ![p] = "idle"]
    /\ wl_locked' = FALSE
    /\ UNCHANGED writers

\* acquire_write, under _write_lock: count the writer; the first one awaits
\* the event, still holding _write_lock when the event is down
WriteEnter(p) ==
    /\ writers' = writers + 1
    /\ IF writers + 1 = 1 /\ ~read_ready
       THEN /\ wl_locked' = TRUE
            /\ rwpc' = [rwpc EXCEPT ![p] = "aw_event"]
       ELSE /\ wl_locked' = FALSE
            /\ rwpc' = [rwpc EXCEPT ![p] = "writing"]
    /\ UNCHANGED <<readers, read_ready>>

\* `async with self._write_lock`: enter at once, or queue for the lock
WithWriteLock(p, waitpc, Body) ==
    IF WLFree
    THEN Body /\ UNCHANGED wl_waiters
    ELSE /\ wl_waiters' = Append(wl_waiters, p)
         /\ rwpc' = [rwpc EXCEPT ![p] = waitpc]
         /\ UNCHANGED <<readers, writers, read_ready, wl_locked>>

\* acquire_read is called: `await self._read_ready.wait()`, then the lock
AcquireRead(p) ==
    /\ rwpc[p] = "idle"
    /\ IF read_ready
       THEN WithWriteLock(p, "ar_lock", ReadEnter(p))
       ELSE /\ rwpc' = [rwpc EXCEPT ![p] = "ar_event"]
            /\ UNCHANGED <<readers, writers, read_ready, wl_locked, wl_waiters>>
    /\ UNCHANGED <<txVars, facVars, libVars>>

\* release_read is called
ReleaseRead(p) ==
    /\ rwpc[p] = "reading"
    /\ WithWriteLock(p, "rr_lock", ReadExit(p))
    /\ UNCHANGED <<txVars, facVars, libVars>>

\* acquire_write is called
AcquireWrite(p) ==
    /\ rwpc[p] = "idle"
    /\ WithWriteLock(p, "aw_lock", WriteEnter(p))
    /\ UNCHANGED <<txVars, facVars, libVars>>

\* a task that Event.set() or Lock.release() made ready is scheduled again:
\* a reader woken from the event goes on to the lock; the writer woken from
\* the event leaves `async with` and acquire_write returns; the first task
\* queued for _write_lock takes it and runs the body it queued for
Resumable(p) ==
    \/ rwpc[p] \in {"ar_woken", "aw_woken"}
    \/ /\ rwpc[p] \in {"ar_lock", "rr_lock", "aw_lock"}
       /\ ~wl_locked
       /\ wl_waiters # <<>> /\ Head(wl_waiters) = p

Resume(p) ==
    /\ Resumable(p)
    /\ CASE rwpc[p] = "ar_woken" -> WithWriteLock(p, "ar_lock", ReadEnter(p))
         [] rwpc[p] = "aw_woken" ->
                /\ wl_locked' = FALSE
                /\ rwpc' = [rwpc EXCEPT ![p] = "writing"]
                /\ UNCHANGED <<readers, writers, read_ready, wl_waiters>>
         [] rwpc[p] = "ar_lock" -> wl_waiters' = Tail(wl_waiters) /\ ReadEnter(p)
         [] rwpc[p] = "rr_lock" -> wl_waiters' = Tail(wl_waiters) /\ ReadExit(p)
         [] OTHER -> wl_waiters' = Tail(wl_waiters) /\ WriteEnter(p)
    /\ UNCHANGED <<txVars, facVars, libVars>>

\* release_write is called (no lock, no await)
ReleaseWrite(p) ==
    /\ rwpc[p] = "writing"
    /\ writers' = writers - 1
    /\ read_ready' = IF writers - 1 = 0 THEN TRUE ELSE read_ready
    /\ rwpc' = [(IF writers - 1 = 0 /\ ~read_ready THEN WakeAll(rwpc) ELSE rwpc)
                    EXCEPT ![p] = "idle"]
    /\ UNCHANGED <<readers, wl_locked, wl_waiters>>
    /\ UNCHANGED <<txVars, facVars, libVars>>

RWInit ==
    /\ readers = 0
    /\ writers = 0
    /\ read_ready = TRUE
    /\ wl_locked = FALSE
    /\ wl_waiters = <<>>
    /\ rwpc = [p \in RWTasks |-> "idle"]

RWNext ==
    \E p \in RWTasks :
        \/ AcquireRead(p)
        \/ ReleaseRead(p)
        \/ AcquireWrite(p)
        \/ ReleaseWrite(p)
        \/ Resume(p)

(***************************************************************************)
(* Part 4: BlockStore (src/block_store.py) and a payload written across    *)
(*         its blocks the way the facade does (src/enhanced_filestore.py,  *)
(*         _write_to_blocks and the read loop of get_document).            *)
(*                                                                         *)
(* The store runs every method body on a thread of asyncio.to_thread, so   *)
(* the steps of two calls interleave: the test of the free list, the pop,  *)
(* the f.tell() and the write that extends the file are separate actions.  *)
(* The facade's own _allocate_block / _write_block / _read_block wrappers  *)
(* hand the store's coroutine functions to asyncio.to_thread and so run    *)
(* nothing; the payload below goes through the store's methods themselves, *)
(* in the order the facade's loops name them.                              *)
(***************************************************************************)
Workers == 1..NumWorkers
\* the worker whose allocations carry the payload
DocWorker == 1
\* 0 is the byte write_block pads with; a payload has none (it is JSON text)
PadByte == 0
\* one payload of each length, neighbouring bytes differing
Payloads == {[i \in 1..n |-> 1 + (i % 2)] : n \in 1..MaxPayload}

NoAlloc == [kind |-> "none", slot |-> 0, sawEmpty |-> FALSE, lenSeen |-> 0, expect |-> 0]

\* os.path.getsize of the store's file
FileLength(f) == Len(f) * BlockSize

\* b'\0' * self.block_size
ZeroBlock == [i \in 1..BlockSize |-> PadByte]

\* data.ljust(self.block_size, b'\0')
Pad(data) ==
    IF Len(data) >= BlockSize THEN data
    ELSE data \o [i \in 1..(BlockSize - Len(data)) |-> PadByte]

\* f.seek(block_id * self.block_size); f.write(...)
WriteBlockSync(f, block_id, data) ==
    IF block_id + 1 \in DOMAIN f
    THEN [f EXCEPT ![block_id + 1] = Pad(data)]
    ELSE f

\* f.seek(block_id * self.block_size); f.read(self.block_size)
ReadBlockSync(f, block_id) ==
    IF block_id + 1 \in DOMAIN f THEN f[block_id + 1] ELSE <<>>

\* self.free_blocks.pop(), taking the first entry instead of the last
PopFrom_First(fl) == [slot |-> Head(fl), rest |-> Tail(fl)]

\* self.free_blocks.pop()
PopFrom(fl) == [slot |-> fl[Len(fl)], rest |-> SubSeq(fl, 1, Len(fl) - 1)]

\* the history without the latest entry of s
RECURSIVE DropLatest(_, _)
DropLatest(h, s) ==
    IF h = <<>> THEN <<>>
    ELSE IF h[Len(h)] = s THEN SubSeq(h, 1, Len(h) - 1)
    ELSE Append(DropLatest(SubSeq(h, 1, Len(h) - 1), s), h[Len(h)])

\* range(0, len(data), block_store.block_size)
NumChunks(data) == (Len(data) + BlockSize - 1) \div BlockSize

\* data[i:i + block_store.block_size] of the k-th round
Chunk(data, k) ==
    SubSeq(data, (k - 1) * BlockSize + 1,
           IF k * BlockSize < Len(data) THEN k * BlockSize ELSE Len(data))

\* data = b""; for pointer in block_pointers: data += read_block(pointer)
RECURSIVE Reassemble(_, _)
Reassemble(f, pointers) ==
    IF pointers = <<>> THEN <<>>
    ELSE ReadBlockSync(f, Head(pointers)) \o Reassemble(f, Tail(pointers))

\* json.loads(data.decode('utf-8')): bytes after the document are "Extra data"
Decode(data) ==
    IF \E i \in DOMAIN data : data[i] = PadByte THEN "JSONDecodeError" ELSE data

\* the payload writer goes on once its allocate_block returned or raised
DocAfterAlloc(w, ok) ==
    IF w = DocWorker /\ dstep = "alloc"
    THEN dstep' = (IF ok THEN "put" ELSE "failed")
    ELSE UNCHANGED dstep

\* threads inside the extending branch of _allocate_block_sync
Extending == {v \in Workers : bpc[v] \in {"extend", "told"}}

\* allocate_block: the thread starts _allocate_block_sync and tests the free list
AllocateBlock(w) ==
    /\ bpc[w] = "idle"
    /\ w = DocWorker => dstep \in {"none", "alloc"}
    /\ free_blocks # <<>> \/ Len(file) + Cardinality(Extending) < MaxBlocks
    /\ ncalls < MaxCalls
    /\ ncalls' = ncalls + 1
    /\ bpc' = [bpc EXCEPT ![w] = IF free_blocks # <<>> THEN "pop" ELSE "extend"]
    /\ alloc_ret' = [alloc_ret EXCEPT ![w] =
                        [NoAlloc EXCEPT !.kind = "pending",
                                        !.sawEmpty = (free_blocks = <<>>)]]
    /\ UNCHANGED <<free_blocks, file, btell, held, freed_unused,
                   wpayload, wblocks, rdata, dstep>>

\* return self.free_blocks.pop(); an emptied list raises IndexError, which
\* leaves as BlockAllocationError
AllocPop(w) ==
    /\ bpc[w] = "pop"
    /\ bpc' = [bpc EXCEPT ![w] = "idle"]
    /\ IF free_blocks = <<>>
       THEN /\ alloc_ret' = [alloc_ret EXCEPT ![w].kind = "error"]
            /\ DocAfterAlloc(w, FALSE)
            /\ UNCHANGED <<free_blocks, held, freed_unused>>
       ELSE LET r == PopFrom(free_blocks) IN
            /\ free_blocks' = r.rest
            /\ held' = [held EXCEPT ![w] = @ \cup {r.slot}]
            /\ alloc_ret' = [alloc_ret EXCEPT ![w].kind = "reused",
                                              ![w].slot = r.slot,
                                              ![w].expect = freed_unused[Len(freed_unused)]]
            /\ freed_unused' = DropLatest(freed_unused, r.slot)
            /\ DocAfterAlloc(w, TRUE)
    /\ UNCHANGED <<file, btell, ncalls, wpayload, wblocks, rdata>>

\* f.seek(0, 2); block_id = f.tell() // self.block_size
AllocTell(w) ==
    /\ bpc[w] = "extend"
    /\ btell' = [btell EXCEPT ![w] = FileLength(file)]
    /\ alloc_ret' = [alloc_ret EXCEPT ![w].lenSeen = FileLength(file)]
    /\ bpc' = [bpc EXCEPT ![w] = "told"]
    /\ UNCHANGED <<free_blocks, file, held, freed_unused, ncalls,
                   wpayload, wblocks, rdata, dstep>>

\* f.write(b'\0' * self.block_size) in append mode; return block_id
AllocWrite(w) ==
    /\ bpc[w] = "told"
    /\ LET block_id == btell[w] \div BlockSize IN
        /\ file' = Append(file, ZeroBlock)
        /\ held' = [held EXCEPT ![w] = @ \cup {block_id}]
        /\ alloc_ret' = [alloc_ret EXCEPT ![w].kind = "fresh",
                                          ![w].slot = block_id]
    /\ bpc' = [bpc EXCEPT ![w] = "idle"]
    /\ DocAfterAlloc(w, TRUE)
    /\ UNCHANGED <<free_blocks, btell, freed_unused, ncalls, wpayload, wblocks, rdata>>

\* free_block: a caller gives back a slot it was handed
FreeBlock(w, s) ==
    /\ bpc[w] = "idle"
    /\ s \in held[w]
    /\ w = DocWorker => dstep = "none"
    /\ free_blocks' = Append(free_blocks, s)
    /\ freed_unused' = Append(freed_unused, s)
    /\ held' = [held EXCEPT ![w] = @ \ {s}]
    /\ UNCHANGED <<file, bpc, btell, alloc_ret, ncalls, wpayload, wblocks, rdata, dstep>>

\* _write_to_blocks is entered with the encoded document
StartWrite(d) ==
    /\ dstep = "none"
    /\ bpc[DocWorker] = "idle"
    /\ wpayload' = d
    /\ wblocks' = <<>>
    /\ rdata' = <<>>
    /\ dstep' = "alloc"
    /\ UNCHANGED <<free_blocks, file, bpc, btell, held, alloc_ret, freed_unused, ncalls>>

\* write_block(block_id, data[i:i + block_size]); block_pointers.append(block_id)
WriteChunk ==
    /\ dstep = "put"
    /\ LET k == Len(wblocks) + 1
           block_id == alloc_ret[DocWorker].slot
       IN /\ file' = WriteBlockSync(file, block_id, Chunk(wpayload, k))
          /\ wblocks' = Append(wblocks, block_id)
          /\ dstep' = IF k = NumChunks(wpayload) THEN "read" ELSE "alloc"
    /\ UNCHANGED <<free_blocks, bpc, btell, held, alloc_ret, freed_unused, ncalls,
                   wpayload, rdata>>

\* the read loop of get_document over the pointers that were returned
ReadBack ==
    /\ dstep = "read"
    /\ rdata' = Reassemble(file, wblocks)
    /\ dstep' = "done"
    /\ UNCHANGED <<free_blocks, file, bpc, btell, held, alloc_ret, freed_unused, ncalls,
                   wpayload, wblocks>>

\* the caller has its answer (or the error of the failed allocation)
DocFinish ==
    /\ dstep \in {"done", "failed"}
    /\ dstep' = "none"
    /\ wpayload' = <<>>
    /\ wblocks' = <<>>
    /\ rdata' = <<>>
    /\ UNCHANGED <<free_blocks, file, bpc, btell, held, alloc_ret, freed_unused, ncalls>>

BlocksInit ==
    /\ free_blocks = <<>>
    /\ file = <<>>
    /\ bpc = [w \in Workers |-> "idle"]
    /\ btell = [w \in Workers |-> 0]
    /\ held = [w \in Workers |-> {}]
    /\ alloc_ret = [w \in Workers |-> NoAlloc]
    /\ freed_unused = <<>>
    /\ ncalls = 0
    /\ wpayload = <<>>
    /\ wblocks = <<>>
    /\ rdata = <<>>
    /\ dstep = "none"

otherThanBlocks == <<txVars, facVars, rwVars, storeVars, jrnVars, treeVars, ptrVars, idxVars, lruVars, colVars, ccVars>>

BlocksNext ==
    \/ \E w \in Workers :
        \/ AllocateBlock(w) /\ UNCHANGED otherThanBlocks
        \/ AllocPop(w) /\ UNCHANGED otherThanBlocks
        \/ AllocTell(w) /\ UNCHANGED otherThanBlocks
        \/ AllocWrite(w) /\ UNCHANGED otherThanBlocks
        \/ \E s \in 0..(MaxBlocks - 1) : FreeBlock(w, s) /\ UNCHANGED otherThanBlocks
    \/ \E d \in Payloads : StartWrite(d) /\ UNCHANGED otherThanBlocks
    \/ WriteChunk /\ UNCHANGED otherThanBlocks
    \/ ReadBack /\ UNCHANGED otherThanBlocks
    \/ DocFinish /\ UNCHANGED otherThanBlocks

(***************************************************************************)
(* Part 5: JSONFilestore (src/json_filestore.py) with its LRU cache         *)
(*         (src/lru_cache.py) and its background compression worker.       *)
(*                                                                         *)
(* The bodies of create, create_with_id, read, update and delete and one   *)
(* round of process_compression_queue are the actions.  None of them       *)
(* suspends between its first and its last statement (the awaits inside    *)
(* are of coroutines that never wait, and the queue is unbounded), so each *)
(* is one step of the event loop.  Documents are Python dicts shared by    *)
(* reference between self.data, the cache and the queue: heap holds the    *)
(* dicts, and the three hold indices into it.                              *)
(*                                                                         *)
(* As written the decorators of the public methods look the per-key lock   *)
(* up with self.locks.get(key, create=True) on a plain dict, which raises  *)
(* TypeError before any body runs.  The bodies are modelled as they run    *)
(* under the per-key lock table the specification describes                *)
(* (KeyLockGranted).                                                       *)
(***************************************************************************)
\* the values a caller stores under 'data': "L" makes the document exceed 4 KB
DataVals == {"s", "L"}
\* an update that has no 'data' key
Keep == "keep"

\* the decorator obtained and took the lock of the key
KeyLockGranted == TRUE

\* 'data' as passed by a caller; enc tells the value v itself ("plain") from
\* the bytes zlib made of its JSON text ("zlib") and from JSON text ("text")
Plain(v) == [enc |-> "plain", v |-> v]

\* len(json.dumps(document)) > 4 * 1024
Big(doc) == doc.data.v = "L"

\* json.dumps(document) raises TypeError on bytes
Dumpable(doc) == doc.data.enc # "zlib"

\* zlib.compress(json.dumps(document['data']).encode('utf-8'))
CompressData(data) == [data EXCEPT !.enc = "zlib"]

\* zlib.decompress(data).decode('utf-8'): the JSON text, not the value dumped
DecompressData(data) == [data EXCEPT !.enc = "text"]

\* OrderedDict of LRUCache, least recently used first, as <<key, dict>> pairs
CacheKeys(c) == {c[i][1] : i \in DOMAIN c}
CacheWithout(c, k) == SelectSeq(c, LAMBDA e : e[1] # k)
CacheRef(c, k) == (CHOOSE i \in DOMAIN c : c[i][1] = k)

\* LRUCache.put of a cache of the given capacity
PutWithin(c, capacity, k, o) ==
    LET put == Append(CacheWithout(c, k), <<k, o>>)
    IN IF Len(put) > capacity THEN Tail(put) ELSE put

\* LRUCache.put of the store's cache
CachePut(c, k, o) == PutWithin(c, CacheCapacity, k, o)

\* LRUCache.get on a hit without move_to_end
CacheTouch_InPlace(c, k) == c

\* LRUCache.get on a hit: move_to_end
CacheTouch(c, k) == Append(CacheWithout(c, k), c[CacheRef(c, k)])

\* the tail of _create_with_id and of update: queue the big document
Enqueue(q, doc_id, o, doc) ==
    IF Big(doc) THEN Append(q, <<doc_id, o>>) ELSE q

\* o: the dict the call returned or worked on; was: its timestamps before;
\* ret: `compressed` and the encoding of `data` of the dict a read returned
NoResult == [op |-> "none", id |-> 0, out |-> "none", gone |-> FALSE,
             upd |-> Keep, o |-> 0, was |-> <<0, 0>>, ret |-> <<FALSE, "none">>]

\* what the caller of read finds in the returned dict
Returned(doc) == <<doc.compressed, doc.data.enc>>

\* _create_with_id
CreateDocument(doc_id, v, op) ==
    LET doc == [id |-> doc_id, created_at |-> now, updated_at |-> now,
                data |-> Plain(v), compressed |-> FALSE]
        o == Len(heap) + 1
    IN /\ Len(heap) < MaxObjs
       /\ Big(doc) => Len(cqueue) < MaxQueue
       /\ heap' = Append(heap, doc)
       /\ sdata' = [sdata EXCEPT ![doc_id] = o]
       /\ cache' = CachePut(cache, doc_id, o)
       /\ cqueue' = Enqueue(cqueue, doc_id, o, doc)
       /\ deleted' = deleted \ {doc_id}
       /\ sres' = [NoResult EXCEPT !.op = op, !.id = doc_id, !.out = "ok", !.o = o]

\* create
StoreCreate(v) ==
    /\ KeyLockGranted
    /\ snext_id \in DocIds
    /\ snext_id' = snext_id + 1
    /\ CreateDocument(snext_id, v, "create")
    /\ UNCHANGED now

\* create_with_id that leaves next_id alone
NextIdAfter_Keep(doc_id) == snext_id

\* create_with_id: if doc_id >= self.next_id: self.next_id = doc_id + 1
NextIdAfter(doc_id) == IF doc_id >= snext_id THEN doc_id + 1 ELSE snext_id

\* create_with_id
StoreCreateWithId(doc_id, v) ==
    /\ KeyLockGranted
    /\ IF sdata[doc_id] # 0
       THEN /\ sres' = [NoResult EXCEPT !.op = "create_with_id", !.id = doc_id,
                                        !.out = "DocumentAlreadyExistsError"]
            /\ UNCHANGED <<heap, sdata, snext_id, cache, cqueue, deleted>>
       ELSE /\ snext_id' = NextIdAfter(doc_id)
            /\ CreateDocument(doc_id, v, "create_with_id")
    /\ UNCHANGED now

\* read
StoreRead(doc_id) ==
    /\ KeyLockGranted
    /\ LET res == [NoResult EXCEPT !.op = "read", !.id = doc_id,
                                   !.gone = (doc_id \in deleted)]
           o == sdata[doc_id]
       IN IF doc_id \in CacheKeys(cache)
          THEN \* document = self.cache.get(doc_id); return document
               /\ cache' = CacheTouch(cache, doc_id)
               /\ sres' = [res EXCEPT !.out = "ok",
                                      !.o = cache[CacheRef(cache, doc_id)][2],
                                      !.ret = Returned(heap[cache[CacheRef(cache, doc_id)][2]])]
               /\ UNCHANGED heap
          ELSE IF o = 0
          THEN /\ sres' = [res EXCEPT !.out = "DocumentNotFoundError"]
               /\ UNCHANGED <<heap, cache>>
          ELSE IF heap[o].compressed /\ heap[o].data.enc # "zlib"
          THEN \* zlib.decompress of a str raises; it leaves as StorageException
               /\ sres' = [res EXCEPT !.out = "StorageException"]
               /\ UNCHANGED <<heap, cache>>
          ELSE LET doc == IF heap[o].compressed
                          THEN [heap[o] EXCEPT !.data = DecompressData(@),
                                               !.compressed = FALSE]
                          ELSE heap[o]
               IN /\ heap' = [heap EXCEPT ![o] = doc]
                  /\ cache' = CachePut(cache, doc_id, o)
                  /\ sres' = [res EXCEPT !.out = "ok", !.o = o, !.ret = Returned(doc)]
    /\ UNCHANGED <<sdata, snext_id, cqueue, now, deleted>>

\* update: document.update(updates); updated_at; cache.put; queue when big
StoreUpdate(doc_id, upd) ==
    /\ KeyLockGranted
    /\ LET res == [NoResult EXCEPT !.op = "update", !.id = doc_id, !.upd = upd]
           o == sdata[doc_id]
           was == <<heap[o].created_at, heap[o].updated_at>>
       IN IF o = 0
          THEN /\ sres' = [res EXCEPT !.out = "DocumentNotFoundError"]
               /\ UNCHANGED <<heap, cache, cqueue>>
          ELSE LET doc == [heap[o] EXCEPT
                              !.data = IF upd = Keep THEN @ ELSE Plain(upd),
                              !.updated_at = now]
               IN /\ heap' = [heap EXCEPT ![o] = doc]
                  /\ cache' = CachePut(cache, doc_id, o)
                  /\ IF Dumpable(doc)
                     THEN /\ Big(doc) => Len(cqueue) < MaxQueue
                          /\ cqueue' = Enqueue(cqueue, doc_id, o, doc)
                          /\ sres' = [res EXCEPT !.out = "ok", !.o = o, !.was = was]
                     ELSE /\ cqueue' = cqueue
                          /\ sres' = [res EXCEPT !.out = "StorageException",
                                                 !.o = o, !.was = was]
    /\ UNCHANGED <<sdata, snext_id, now, deleted>>

\* delete: del self.data[doc_id]; self.cache.invalidate(doc_id)
StoreDelete(doc_id) ==
    /\ KeyLockGranted
    /\ LET res == [NoResult EXCEPT !.op = "delete", !.id = doc_id] IN
       IF sdata[doc_id] = 0
       THEN /\ sres' = [res EXCEPT !.out = "DocumentNotFoundError"]
            /\ UNCHANGED <<sdata, cache, deleted>>
       ELSE /\ sdata' = [sdata EXCEPT ![doc_id] = 0]
            /\ cache' = CacheWithout(cache, doc_id)
            /\ deleted' = deleted \cup {doc_id}
            /\ sres' = [res EXCEPT !.out = "ok"]
    /\ UNCHANGED <<heap, snext_id, cqueue, now>>

\* one round of process_compression_queue, which takes no lock
CompressNext ==
    /\ cqueue # <<>>
    /\ LET doc_id == cqueue[1][1]
           o == cqueue[1][2]
       IN IF heap[o].data.enc = "zlib"
          THEN \* json.dumps of bytes raises TypeError: logged, nothing stored
               UNCHANGED <<heap, sdata>>
          ELSE /\ heap' = [heap EXCEPT ![o].data = CompressData(@),
                                       ![o].compressed = TRUE]
               /\ sdata' = [sdata EXCEPT ![doc_id] = o]
    /\ cqueue' = Tail(cqueue)
    /\ UNCHANGED <<snext_id, cache, now, deleted, sres>>

\* time.time() passes a second boundary
Tick ==
    /\ now < MaxTime
    /\ now' = now + 1
    /\ UNCHANGED <<heap, sdata, snext_id, cache, cqueue, deleted, sres>>

StoreInit ==
    /\ heap = <<>>
    /\ sdata = [d \in DocIds |-> 0]
    /\ snext_id = 1
    /\ cache = <<>>
    /\ cqueue = <<>>
    /\ now = 1
    /\ deleted = {}
    /\ sres = NoResult

otherThanStore == <<txVars, facVars, rwVars, blkVars, jrnVars, treeVars, ptrVars, idxVars, lruVars, colVars, ccVars>>

StoreNext ==
    \/ \E v \in DataVals : StoreCreate(v) /\ UNCHANGED otherThanStore
    \/ \E d \in DocIds, v \in DataVals :
        StoreCreateWithId(d, v) /\ UNCHANGED otherThanStore
    \/ \E d \in DocIds : StoreRead(d) /\ UNCHANGED otherThanStore
    \/ \E d \in DocIds, upd \in DataVals \cup {Keep} :
        StoreUpdate(d, upd) /\ UNCHANGED otherThanStore
    \/ \E d \in DocIds : StoreDelete(d) /\ UNCHANGED otherThanStore
    \/ CompressNext /\ UNCHANGED otherThanStore
    \/ Tick /\ UNCHANGED otherThanStore

(***************************************************************************)
(* Part 6: Journal (src/journal.py).  The file is a sequence of lines; a   *)
(*         line is the JSON text log_operation wrote, or what is left of   *)
(*         it when the writing process died inside f.write.                *)
(***************************************************************************)
Tags == {"ADD", "DELETE"}

\* json.dumps({"operation": operation, "data": data}) + "\n"
Entry(tag) == [text |-> "json", operation |-> tag]

\* a line that json.loads rejects
Torn(tag) == [text |-> "torn", operation |-> tag]

\* json.loads(line) raises JSONDecodeError
LoadsRaises(line) == line.text # "json"

\* json.loads(line) of a line that parses
Loads(line) == [operation |-> line.operation]

\* the loop of recover: operations.append(json.loads(line)) until a line raises
RECURSIVE Recovered(_)
Recovered(lines) ==
    IF lines = <<>> \/ LoadsRaises(Head(lines)) THEN <<>>
    ELSE <<Loads(Head(lines))>> \o Recovered(Tail(lines))

HasMalformedLine(lines) ==
    \E i \in DOMAIN lines : LoadsRaises(lines[i])

\* log_operation
LogOperation(tag) ==
    /\ Len(journal) < MaxLines
    /\ journal' = Append(journal, Entry(tag))
    /\ UNCHANGED jres

\* the process is killed while log_operation writes its line
TornWrite(tag) ==
    /\ Len(journal) < MaxLines
    /\ journal' = Append(journal, Torn(tag))
    /\ UNCHANGED jres

\* recover: the except clause prints and the list read so far is returned
Recover ==
    /\ jres' = [out |-> "returned", ops |-> Recovered(journal),
                malformed |-> HasMalformedLine(journal)]
    /\ UNCHANGED journal

\* clear
Clear ==
    /\ journal' = <<>>
    /\ UNCHANGED jres

JournalInit ==
    /\ journal = <<>>
    /\ jres = [out |-> "none", ops |-> <<>>, malformed |-> FALSE]

otherThanJournal == <<txVars, facVars, rwVars, blkVars, storeVars, treeVars, ptrVars, idxVars, lruVars, colVars, ccVars>>

JournalNext ==
    \/ \E tag \in Tags : LogOperation(tag) /\ UNCHANGED otherThanJournal
    \/ \E tag \in Tags : TornWrite(tag) /\ UNCHANGED otherThanJournal
    \/ Recover /\ UNCHANGED otherThanJournal
    \/ Clear /\ UNCHANGED otherThanJournal

(***************************************************************************)
(* Part 7: BPlusTree (src/b_plus_tree.py).  tnodes holds the BPlusNode     *)
(*         objects by identity (0: None); positions are 1-based here and   *)
(*         0-based in the source.  Keys are numbers, as the index manager  *)
(*         passes them; an entry of a node's key list is the pair          *)
(*         (key, value), in leaves and, after a split, in internal nodes.  *)
(***************************************************************************)
TreeKeys == 1..MaxKey

\* the value stored with a key
ValueOf(k) == k + 10

\* BPlusNode(leaf)
NewNode(leaf) == [leaf |-> leaf, keys |-> <<>>, children |-> <<>>, next |-> 0]

\* list.insert(index, x), index counted from 1
InsertAt(seq, index, x) ==
    SubSeq(seq, 1, index - 1) \o <<x>> \o SubSeq(seq, index, Len(seq))

\* len(node.keys) == (2 * self.order) - 1
IsFull(node, order) == Len(node.keys) = 2 * order - 1

\* child.keys = child.keys[:order - 2], one key short
KeptKeys_OneLess(keys, order) == SubSeq(keys, 1, order - 2)

\* child.keys = child.keys[:order - 1]
KeptKeys(keys, order) == SubSeq(keys, 1, order - 1)

\* _split_child(parent, index): the new node is appended to the heap
SplitChild(nodes, parent, index, order) ==
    LET cid == nodes[parent].children[index]
        child == nodes[cid]
        nid == Len(nodes) + 1
        new_child ==
            [leaf |-> child.leaf,
             keys |-> SubSeq(child.keys, order + 1, Len(child.keys)),
             children |-> IF child.leaf THEN <<>>
                          ELSE SubSeq(child.children, order + 1, Len(child.children)),
             next |-> IF child.leaf THEN child.next ELSE 0]
    IN Append(
        [nodes EXCEPT
            ![parent].keys = InsertAt(@, index, child.keys[order]),
            ![parent].children = InsertAt(@, index + 1, nid),
            ![cid].keys = KeptKeys(@, order),
            ![cid].children = IF child.leaf THEN @ ELSE SubSeq(@, 1, order),
            ![cid].next = IF child.leaf THEN nid ELSE @],
        new_child)

\* the leaf branch of _insert_non_full: behind the last entry whose key is
\* not greater than key
RECURSIVE LeafInsert(_, _, _)
LeafInsert(keys, key, value) ==
    IF keys # <<>> /\ key < keys[Len(keys)][1]
    THEN Append(LeafInsert(SubSeq(keys, 1, Len(keys) - 1), key, value), keys[Len(keys)])
    ELSE Append(keys, <<key, value>>)

\* _insert_non_full.  In an internal node `key < node.keys[i]` and
\* `key > node.keys[i]` compare the key with a (key, value) pair, which raises
\* TypeError; only a node without keys is passed without a comparison.
RECURSIVE InsertNonFull(_, _, _, _, _)
InsertNonFull(nodes, n, key, value, order) ==
    IF nodes[n].leaf
    THEN [nodes |-> [nodes EXCEPT ![n].keys = LeafInsert(@, key, value)], err |-> "none"]
    ELSE IF nodes[n].keys # <<>>
    THEN [nodes |-> nodes, err |-> "TypeError"]
    ELSE IF IsFull(nodes[nodes[n].children[1]], order)
    THEN [nodes |-> SplitChild(nodes, n, 1, order), err |-> "TypeError"]
    ELSE InsertNonFull(nodes, nodes[n].children[1], key, value, order)

\* _search: the index of the first entry whose key is not less than key
RECURSIVE SearchIndex(_, _, _)
SearchIndex(keys, key, i) ==
    IF i <= Len(keys) /\ key > keys[i][1] THEN SearchIndex(keys, key, i + 1) ELSE i

\* _search; 0 stands for None
RECURSIVE Search(_, _, _)
Search(nodes, n, key) ==
    LET i == SearchIndex(nodes[n].keys, key, 1) IN
    IF nodes[n].leaf
    THEN IF i <= Len(nodes[n].keys) /\ nodes[n].keys[i][1] = key
         THEN nodes[n].keys[i][2] ELSE 0
    ELSE Search(nodes, nodes[n].children[i], key)

\* _find_leaf: [err, leaf]
RECURSIVE FindLeaf(_, _)
FindLeaf(nodes, n) ==
    IF nodes[n].leaf THEN [err |-> "none", leaf |-> n]
    ELSE IF nodes[n].keys # <<>> THEN [err |-> "TypeError", leaf |-> 0]
    ELSE FindLeaf(nodes, nodes[n].children[1])

\* the for loop of range_query over one leaf: [out, done]
RECURSIVE ScanLeaf(_, _, _, _)
ScanLeaf(keys, lo, hi, out) ==
    IF keys = <<>> THEN [out |-> out, done |-> FALSE]
    ELSE LET k == Head(keys)[1] IN
         IF lo <= k /\ k <= hi THEN ScanLeaf(Tail(keys), lo, hi, Append(out, Head(keys)))
         ELSE IF k > hi THEN [out |-> out, done |-> TRUE]
         ELSE ScanLeaf(Tail(keys), lo, hi, out)

\* the while loop of range_query along the leaf chain
RECURSIVE WalkLeaves(_, _, _, _, _)
WalkLeaves(nodes, leaf, lo, hi, out) ==
    IF leaf = 0 THEN out
    ELSE LET s == ScanLeaf(nodes[leaf].keys, lo, hi, out) IN
         IF s.done THEN s.out ELSE WalkLeaves(nodes, nodes[leaf].next, lo, hi, s.out)

NoTreeResult == [op |-> "none", a |-> 0, b |-> 0, err |-> "none", val |-> 0]

\* BPlusTree(order)
NewTree(order) ==
    /\ torder = 0
    /\ torder' = order
    /\ tnodes' = <<NewNode(TRUE)>>
    /\ troot' = 1
    /\ UNCHANGED <<ttried, tinserted, tres>>

\* insert(key, value) of a key not passed before
TreeInsert(key) ==
    /\ torder > 0
    /\ key \notin ttried
    /\ ttried' = ttried \cup {key}
    /\ LET split == IsFull(tnodes[troot], torder)
           new_root == Len(tnodes) + 1
           grown == Append(tnodes, [NewNode(FALSE) EXCEPT !.children = <<troot>>])
           nodes == IF split THEN SplitChild(grown, new_root, 1, torder) ELSE tnodes
           root == IF split THEN new_root ELSE troot
           r == InsertNonFull(nodes, root, key, ValueOf(key), torder)
       IN /\ tnodes' = r.nodes
          /\ troot' = root
          /\ tinserted' = IF r.err = "none" THEN tinserted \cup {key} ELSE tinserted
          /\ tres' = [NoTreeResult EXCEPT !.op = "insert", !.a = key, !.err = r.err]
    /\ UNCHANGED torder

\* search(key)
TreeSearch(key) ==
    /\ torder > 0
    /\ tres' = [NoTreeResult EXCEPT !.op = "search", !.a = key,
                                    !.val = Search(tnodes, troot, key)]
    /\ UNCHANGED <<tnodes, troot, torder, ttried, tinserted>>

\* range_query(start_key, end_key)
TreeRangeQuery(lo, hi) ==
    /\ torder > 0
    /\ LET f == FindLeaf(tnodes, troot) IN
       tres' = [NoTreeResult EXCEPT
                   !.op = "range", !.a = lo, !.b = hi, !.err = f.err,
                   !.val = IF f.err = "none"
                           THEN WalkLeaves(tnodes, f.leaf, lo, hi, <<>>) ELSE <<>>]
    /\ UNCHANGED <<tnodes, troot, torder, ttried, tinserted>>

TreeInit ==
    /\ tnodes = <<>>
    /\ troot = 0
    /\ torder = 0
    /\ ttried = {}
    /\ tinserted = {}
    /\ tres = NoTreeResult

otherThanTree == <<txVars, facVars, rwVars, blkVars, storeVars, jrnVars, ptrVars, idxVars, lruVars, colVars, ccVars>>

TreeNext ==
    \/ \E order \in 1..MaxOrder : NewTree(order) /\ UNCHANGED otherThanTree
    \/ \E key \in TreeKeys : TreeInsert(key) /\ UNCHANGED otherThanTree
    \/ \E key \in TreeKeys : TreeSearch(key) /\ UNCHANGED otherThanTree
    \/ \E lo \in TreeKeys, hi \in TreeKeys :
        lo <= hi /\ TreeRangeQuery(lo, hi) /\ UNCHANGED otherThanTree

(***************************************************************************)
(* Part 8: BlockPointerTable (src/block_pointer_table.py).  Every method   *)
(*         body runs inside `async with self.lock`.  Taking a free         *)
(*         asyncio.Lock does not suspend, so a call made while the lock is *)
(*         free runs to its end in one step unless it awaits the lock      *)
(*         again; a call made while the lock is held waits for it.  The    *)
(*         lock is released only by its holder leaving the with block.     *)
(*         Entry ids count from 0, positions in the sequences from 1.      *)
(***************************************************************************)
PtrTasks == 1..NumClients
EntryIds == 0..(MaxEntries - 1)

\* the next pointer a caller registers: (block_store_id, record_location)
NextPointer(e) == <<e + 1, Len(pt_issued[e])>>

\* entry_id >= len(self.entries)
InvalidEntry(e) == e >= Len(pt_entries)

\* result = self.entries[entry_id].copy(); extend by each indirect entry
RECURSIVE Concat(_, _)
Concat(entries, ids) ==
    IF ids = <<>> THEN <<>>
    ELSE entries[Head(ids) + 1] \o Concat(entries, Tail(ids))

PointersOf(e) == pt_entries[e + 1] \o Concat(pt_entries, pt_indirect[e + 1])

\* the entry the next indirect pointer goes to has room
LastIndirectHasRoom(e) ==
    /\ pt_indirect[e + 1] # <<>>
    /\ Len(pt_entries[pt_indirect[e + 1][Len(pt_indirect[e + 1])] + 1]) < DirectCapacity

\* any method called while another task holds self.lock: the caller waits
CallWhileLocked(t, op) ==
    /\ ptpc[t] = "idle"
    /\ pt_holder # 0
    /\ ptpc' = [ptpc EXCEPT ![t] = op]
    /\ UNCHANGED <<pt_entries, pt_indirect, pt_holder, pt_issued, ptres>>

\* create_entry
CreateEntry(t) ==
    /\ ptpc[t] = "idle"
    /\ pt_holder = 0
    /\ Len(pt_entries) < MaxEntries
    /\ pt_entries' = Append(pt_entries, <<>>)
    /\ pt_indirect' = Append(pt_indirect, <<>>)
    /\ UNCHANGED <<pt_holder, ptpc, pt_issued, ptres>>

\* add_pointer on a valid entry.  With a full direct list and no indirect
\* child with room it awaits self.create_entry() inside its own with block.
AddPointer(t, e) ==
    /\ ptpc[t] = "idle"
    /\ pt_holder = 0
    /\ ~InvalidEntry(e)
    /\ Len(pt_issued[e]) < MaxPointers
    /\ pt_issued' = [pt_issued EXCEPT ![e] = Append(@, NextPointer(e))]
    /\ IF Len(pt_entries[e + 1]) < DirectCapacity
       THEN /\ pt_entries' = [pt_entries EXCEPT ![e + 1] = Append(@, NextPointer(e))]
            /\ UNCHANGED <<pt_holder, ptpc>>
       ELSE IF LastIndirectHasRoom(e)
       THEN /\ pt_entries' =
                [pt_entries EXCEPT
                    ![pt_indirect[e + 1][Len(pt_indirect[e + 1])] + 1] =
                        Append(@, NextPointer(e))]
            /\ UNCHANGED <<pt_holder, ptpc>>
       ELSE /\ pt_holder' = t
            /\ ptpc' = [ptpc EXCEPT ![t] = "add_nested"]
            /\ UNCHANGED pt_entries
    /\ UNCHANGED <<pt_indirect, ptres>>

\* get_pointers
GetPointers(t, e) ==
    /\ ptpc[t] = "idle"
    /\ pt_holder = 0
    /\ ~InvalidEntry(e)
    /\ ptres' = [entry |-> e, out |-> PointersOf(e)]
    /\ UNCHANGED <<pt_entries, pt_indirect, pt_holder, ptpc, pt_issued>>

PtrInit ==
    /\ pt_entries = <<>>
    /\ pt_indirect = <<>>
    /\ pt_holder = 0
    /\ ptpc = [t \in PtrTasks |-> "idle"]
    /\ pt_issued = [e \in EntryIds |-> <<>>]
    /\ ptres = [entry |-> 0, out |-> <<>>]

otherThanPtr == <<txVars, facVars, rwVars, blkVars, storeVars, jrnVars, treeVars, idxVars, lruVars, colVars, ccVars>>

PtrNext ==
    \E t \in PtrTasks :
        \/ \E op \in {"create_wait", "add_wait", "get_wait"} :
            CallWhileLocked(t, op) /\ UNCHANGED otherThanPtr
        \/ CreateEntry(t) /\ UNCHANGED otherThanPtr
        \/ \E e \in EntryIds : AddPointer(t, e) /\ UNCHANGED otherThanPtr
        \/ \E e \in EntryIds : GetPointers(t, e) /\ UNCHANGED otherThanPtr

\* ------------------------------------------------------------ index manager
\* Part 9: IndexManager (src/index_manager.py).  Each keyed or ref index owns
\* a BPlusTree(order=10): its root is a leaf until it holds 19 pairs, more
\* than MaxIdxCalls inserts can store, so a tree is the sorted list of pairs of
\* that leaf.  BPlusTree.insert and BPlusTree.search are plain functions: the
\* manager calls them and then awaits what they returned, which raises
\* TypeError after the call has taken effect.  The module imports no
\* QueryException, so the handlers that raise it raise NameError.

IdxTasks == 1..NumClients
IndexNames == {"a", "b"}
IdxKeys == 1..MaxIdxKey
Flags == {"enable_ref_indexing", "enable_compound_indexes", "enable_partial_indexes",
          "enable_text_search", "enable_async_updates"}
\* filter_condition: None, or a callable (here: lambda key: key == 1)
Filters == {"none", "key_is_1"}
FilterAccepts(filter, key) == filter = "none" \/ key = 1

\* texts are sequences of characters
Chars == {"a", "B", " "}
Texts == UNION {[1..n -> Chars] : n \in 0..MaxText}

\* str.lower()
Lower(c) == IF c = "B" THEN "b" ELSE c

\* re.findall(r'\w+', text.lower()): the maximal runs of word characters
RECURSIVE Tokenize(_)
Tokenize(text) ==
    IF text = <<>> THEN <<>>
    ELSE LET rest == Tokenize(Tail(text))
             c == Lower(Head(text))
         IN IF c = " " THEN rest
            ELSE IF Len(text) > 1 /\ text[2] # " "
                 THEN <<(<<c>> \o Head(rest))>> \o Tail(rest)
                 ELSE <<(<<c>>)>> \o rest

\* dict[name] = v
WithEntry(dict, name, v) ==
    [n \in DOMAIN dict \cup {name} |-> IF n = name THEN v ELSE dict[n]]

\* self.text_indexes[index_name].get(word, [])
Posting(index, word) == IF word \in DOMAIN index THEN index[word] ELSE <<>>

\* set(list)
SetOf(list) == {list[i] : i \in 1..Len(list)}

\* the loop of _insert_text_index
RECURSIVE InsertWords(_, _, _)
InsertWords(index, words, doc_id) ==
    IF words = <<>> THEN index
    ELSE InsertWords(WithEntry(index, Head(words), Append(Posting(index, Head(words)), doc_id)),
                     Tail(words), doc_id)

\* set.union(*results): any token matches
RECURSIVE IntersectAll_Union(_)
IntersectAll_Union(results) ==
    IF Len(results) = 1 THEN results[1] ELSE results[1] \cup IntersectAll_Union(Tail(results))

\* set.intersection(*results)
RECURSIVE IntersectAll(_)
IntersectAll(results) ==
    IF Len(results) = 1 THEN results[1] ELSE results[1] \cap IntersectAll(Tail(results))

\* lines 142-143 of text_search
TextSearchResult(index, words) ==
    IF words = <<>> THEN {}
    ELSE IntersectAll([i \in 1..Len(words) |-> SetOf(Posting(index, words[i]))])

\* the dict in which insert, delete and search find the name
Route(name) ==
    IF name \in DOMAIN im_indexes THEN "indexes"
    ELSE IF name \in DOMAIN im_ref_indexes THEN "ref_indexes"
    ELSE IF name \in DOMAIN im_text_indexes THEN "text_indexes"
    ELSE "none"

\* index.tree.insert(key, value) on the tree the bound method belongs to
TreeInsertInto(dict, which, item) ==
    IF item.dict = which
    THEN [dict EXCEPT ![item.name].keys = LeafInsert(@, item.key, item.value)]
    ELSE dict

NoIdxResult ==
    [op |-> "", name |-> "", key |-> 0, query |-> <<>>, requires |-> {},
     full |-> FALSE, out |-> "", created |-> FALSE, val |-> {}]

IdxResult(op, name, out) == [NoIdxResult EXCEPT !.op = op, !.name = name, !.out = out]

Enabled(flag) == flag \in im_config.flags

QueueFull == Enabled("enable_async_updates") /\ Len(im_queue) >= QueueSize

\* the manager exists and some task is free to make a call
Callable ==
    /\ im_config.made
    /\ Len(im_putters) < NumClients

\* the manager exists and task t is not suspended in a call
Ready(t) ==
    /\ im_config.made
    /\ \A i \in 1..Len(im_putters) : im_putters[i].t # t

\* IndexManager(config)
NewIndexManager(flags) ==
    /\ ~im_config.made
    /\ im_config' = [made |-> TRUE, flags |-> flags]
    /\ im_worker' = IF "enable_async_updates" \in flags THEN "running" ELSE "none"
    /\ imres' = IdxResult("init", "", "ok")
    /\ UNCHANGED <<im_indexes, im_ref_indexes, im_text_indexes, im_queue, im_putters,
                   im_acked, im_calls>>

\* create_index: every exception of the body, ConfigurationException
\* included, is caught and raised again as IndexException.  No method reads
\* Index.is_compound, so the index keeps its tree and its filter only.
CreateIndex(name, is_compound, filter) ==
    /\ Callable
    /\ im_calls < MaxIdxCalls
    /\ LET requires == (IF is_compound THEN {"enable_compound_indexes"} ELSE {})
                           \cup (IF filter # "none" THEN {"enable_partial_indexes"} ELSE {})
           fails == requires \ im_config.flags # {} \/ name \in DOMAIN im_indexes
       IN /\ im_indexes' =
                 IF fails THEN im_indexes
                 ELSE WithEntry(im_indexes, name,
                                [keys |-> <<>>, filter |-> filter])
          /\ im_calls' = IF fails THEN im_calls ELSE im_calls + 1
          /\ imres' = [IdxResult("create_index", name, IF fails THEN "IndexException" ELSE "ok")
                         EXCEPT !.requires = requires, !.created = ~fails]
    /\ UNCHANGED <<im_config, im_ref_indexes, im_text_indexes, im_queue, im_putters,
                   im_worker, im_acked>>

\* create_ref_index
CreateRefIndex(name) ==
    /\ Callable
    /\ im_calls < MaxIdxCalls
    /\ LET fails == ~Enabled("enable_ref_indexing") \/ name \in DOMAIN im_ref_indexes
       IN /\ im_ref_indexes' =
                 IF fails THEN im_ref_indexes
                 ELSE WithEntry(im_ref_indexes, name,
                                [keys |-> <<>>, filter |-> "none"])
          /\ im_calls' = IF fails THEN im_calls ELSE im_calls + 1
          /\ imres' = [IdxResult("create_ref_index", name, IF fails THEN "IndexException" ELSE "ok")
                         EXCEPT !.requires = {"enable_ref_indexing"}, !.created = ~fails]
    /\ UNCHANGED <<im_config, im_indexes, im_text_indexes, im_queue, im_putters,
                   im_worker, im_acked>>

\* create_text_index
CreateTextIndex(name) ==
    /\ Callable
    /\ im_calls < MaxIdxCalls
    /\ LET fails == ~Enabled("enable_text_search") \/ name \in DOMAIN im_text_indexes
       IN /\ im_text_indexes' =
                 IF fails THEN im_text_indexes ELSE WithEntry(im_text_indexes, name, <<>>)
          /\ im_calls' = IF fails THEN im_calls ELSE im_calls + 1
          /\ imres' = [IdxResult("create_text_index", name, IF fails THEN "IndexException" ELSE "ok")
                         EXCEPT !.requires = {"enable_text_search"}, !.created = ~fails]
    /\ UNCHANGED <<im_config, im_indexes, im_ref_indexes, im_queue, im_putters,
                   im_worker, im_acked>>

\* insert(index_name, key, value) with a name of no text index, and
\* _insert_or_queue.  Without async updates the tree's insert runs, then
\* `await None` raises TypeError, raised again as IndexException.  With async
\* updates `await queue.put(...)` suspends the caller while the queue is full.
IndexInsert(t, name, key, value) ==
    /\ Ready(t)
    /\ im_calls < MaxIdxCalls
    /\ Route(name) # "text_indexes"
    /\ LET found == Route(name) # "none"
           passes == /\ found
                     /\ Route(name) = "indexes" => FilterAccepts(im_indexes[name].filter, key)
           item == [dict |-> Route(name), name |-> name, key |-> key, value |-> value]
           async == Enabled("enable_async_updates")
           direct == passes /\ ~async
           queued == passes /\ async /\ ~QueueFull
           waits == passes /\ async /\ QueueFull
           res == [IdxResult("insert", name, "") EXCEPT !.full = passes /\ QueueFull]
       IN /\ im_indexes' = IF direct THEN TreeInsertInto(im_indexes, "indexes", item) ELSE im_indexes
          /\ im_ref_indexes' =
                 IF direct THEN TreeInsertInto(im_ref_indexes, "ref_indexes", item) ELSE im_ref_indexes
          /\ im_queue' = IF queued THEN Append(im_queue, item) ELSE im_queue
          /\ im_putters' = IF waits THEN Append(im_putters, [t |-> t, item |-> item]) ELSE im_putters
          /\ im_acked' = IF queued THEN im_acked \cup {<<name, key, value>>} ELSE im_acked
          /\ im_calls' = IF direct \/ queued \/ waits THEN im_calls + 1 ELSE im_calls
          /\ imres' = [res EXCEPT !.out = IF ~found \/ direct THEN "IndexException"
                                          ELSE IF waits THEN "blocked" ELSE "ok"]
    /\ UNCHANGED <<im_config, im_text_indexes, im_worker>>

\* insert(index_name, text, doc_id) with the name of a text index, and
\* _insert_text_index
TextInsert(name, text, doc_id) ==
    /\ Callable
    /\ im_calls < MaxIdxCalls
    /\ Route(name) = "text_indexes"
    /\ im_text_indexes' =
           [im_text_indexes EXCEPT ![name] = InsertWords(@, Tokenize(text), doc_id)]
    /\ im_calls' = im_calls + 1
    /\ imres' = IdxResult("insert", name, "ok")
    /\ UNCHANGED <<im_config, im_indexes, im_ref_indexes, im_queue, im_putters,
                   im_worker, im_acked>>

\* Queue.put resumes: the oldest suspended caller finds room, enqueues and
\* its insert returns
PutResume ==
    /\ im_putters # <<>>
    /\ Len(im_queue) < QueueSize
    /\ LET item == Head(im_putters).item
       IN /\ im_queue' = Append(im_queue, item)
          /\ im_acked' = im_acked \cup {<<item.name, item.key, item.value>>}
          /\ imres' = [IdxResult("insert", item.name, "ok") EXCEPT !.full = TRUE]
    /\ im_putters' = Tail(im_putters)
    /\ UNCHANGED <<im_config, im_indexes, im_ref_indexes, im_text_indexes, im_worker,
                   im_calls>>

\* _process_async_updates: takes an item and calls the tree's insert; `await
\* None` raises TypeError, the handler reads self.logger, which does not
\* exist, and the AttributeError ends the task
ProcessAsyncUpdates ==
    /\ im_worker = "running"
    /\ im_queue # <<>>
    /\ LET item == Head(im_queue)
       IN /\ im_indexes' = TreeInsertInto(im_indexes, "indexes", item)
          /\ im_ref_indexes' = TreeInsertInto(im_ref_indexes, "ref_indexes", item)
          /\ imres' = IdxResult("worker", item.name, "AttributeError")
    /\ im_queue' = Tail(im_queue)
    /\ im_worker' = "dead"
    /\ UNCHANGED <<im_config, im_text_indexes, im_putters, im_acked, im_calls>>

\* delete and _delete_or_queue: BPlusTree has no delete, so reading
\* `tree.delete` raises AttributeError before anything is queued; for a text
\* index the body is `pass`
IndexDelete(name, key) ==
    /\ Callable
    /\ imres' = [IdxResult("delete", name,
                           IF Route(name) = "text_indexes" THEN "ok" ELSE "IndexException")
                   EXCEPT !.full = QueueFull /\ Route(name) \in {"indexes", "ref_indexes"}]
    /\ UNCHANGED <<im_config, im_indexes, im_ref_indexes, im_text_indexes, im_queue,
                   im_putters, im_worker, im_acked, im_calls>>

\* search: for a known name tree.search(key) is evaluated and its result
\* awaited (TypeError), for an unknown one IndexNotFoundError is raised; the
\* handler then raises the undefined QueryException
IndexSearch(name, key) ==
    /\ Callable
    /\ imres' = [IdxResult("search", name, "NameError") EXCEPT !.key = key]
    /\ UNCHANGED <<im_config, im_indexes, im_ref_indexes, im_text_indexes, im_queue,
                   im_putters, im_worker, im_acked, im_calls>>

\* text_search
TextSearch(name, query) ==
    /\ Callable
    /\ LET words == Tokenize(query)
           out == IF ~Enabled("enable_text_search") THEN "NameError"
                  ELSE IF words # <<>> /\ name \notin DOMAIN im_text_indexes
                       THEN "IndexNotFoundError" ELSE "ok"
       IN imres' = [IdxResult("text_search", name, out)
                      EXCEPT !.query = words, !.requires = {"enable_text_search"},
                             !.val = IF out = "ok" /\ words # <<>>
                                     THEN TextSearchResult(im_text_indexes[name], words)
                                     ELSE {}]
    /\ UNCHANGED <<im_config, im_indexes, im_ref_indexes, im_text_indexes, im_queue,
                   im_putters, im_worker, im_acked, im_calls>>

IdxInit ==
    /\ im_config = [made |-> FALSE, flags |-> {}]
    /\ im_indexes = <<>>
    /\ im_ref_indexes = <<>>
    /\ im_text_indexes = <<>>
    /\ im_queue = <<>>
    /\ im_putters = <<>>
    /\ im_worker = "none"
    /\ im_acked = {}
    /\ im_calls = 0
    /\ imres = NoIdxResult

otherThanIdx == <<txVars, facVars, rwVars, blkVars, storeVars, jrnVars, treeVars, ptrVars, lruVars, colVars, ccVars>>

\* the keyed and ref indexes, the flags and the async queue; text indexes
\* stay empty and are searched with one-character queries
IdxNext ==
    \/ \E flags \in SUBSET Flags : NewIndexManager(flags) /\ UNCHANGED otherThanIdx
    \/ PutResume /\ UNCHANGED otherThanIdx
    \/ ProcessAsyncUpdates /\ UNCHANGED otherThanIdx
    \/ \E name \in IndexNames :
          \/ \E is_compound \in BOOLEAN, filter \in Filters :
                CreateIndex(name, is_compound, filter) /\ UNCHANGED otherThanIdx
          \/ CreateRefIndex(name) /\ UNCHANGED otherThanIdx
          \/ CreateTextIndex(name) /\ UNCHANGED otherThanIdx
          \/ \E t \in IdxTasks, key \in IdxKeys :
                IndexInsert(t, name, key, ValueOf(key)) /\ UNCHANGED otherThanIdx
          \/ \E key \in IdxKeys : IndexDelete(name, key) /\ UNCHANGED otherThanIdx
          \/ \E key \in IdxKeys : IndexSearch(name, key) /\ UNCHANGED otherThanIdx
          \/ \E query \in [1..1 -> Chars] : TextSearch(name, query) /\ UNCHANGED otherThanIdx

\* one text index of a manager with nothing else enabled
TextNext ==
    \/ \E flags \in SUBSET {"enable_text_search"} :
          NewIndexManager(flags) /\ UNCHANGED otherThanIdx
    \/ CreateTextIndex("a") /\ UNCHANGED otherThanIdx
    \/ \E text \in Texts, doc_id \in IdxKeys :
          TextInsert("a", text, doc_id) /\ UNCHANGED otherThanIdx
    \/ \E query \in Texts : TextSearch("a", query) /\ UNCHANGED otherThanIdx

\* ------------------------------------------------------------------ LRU cache
\* Part 10: LRUCache (src/lru_cache.py) on its own, beside a reference that
\* stamps every key with the time of its latest get-hit or put.  Values are
\* 1..2; 0 stands for None and for "no key".

LruKeys == 1..MaxLruKey

\* the keys of the OrderedDict, in its order
KeyOrder(c) == [i \in 1..Len(c) |-> c[i][1]]

\* reference: the cached key with the oldest stamp
Oldest(c, used) ==
    IF c = <<>> THEN 0
    ELSE CHOOSE k \in CacheKeys(c) : \A j \in CacheKeys(c) : used[k] <= used[j]

\* LRUCache(capacity)
NewLRUCache(capacity) ==
    /\ lru_cap = 0
    /\ lru_cap' = capacity
    /\ UNCHANGED <<lru, lru_used, lru_time, lrures>>

\* get
LruGet(key) ==
    /\ lru_cap > 0
    /\ lru_time < MaxLruOps
    /\ LET hit == key \in CacheKeys(lru)
       IN /\ lru' = IF hit THEN CacheTouch(lru, key) ELSE lru
          /\ lru_time' = IF hit THEN lru_time + 1 ELSE lru_time
          /\ lru_used' = IF hit THEN [lru_used EXCEPT ![key] = lru_time + 1] ELSE lru_used
          /\ lrures' = [op |-> "get", key |-> key, before |-> KeyOrder(lru), oldest |-> 0,
                        out |-> IF hit THEN lru[CacheRef(lru, key)][2] ELSE 0]
    /\ UNCHANGED lru_cap

\* put; out is the key that popitem(last=False) removed
LruPut(key, value) ==
    /\ lru_cap > 0
    /\ lru_time < MaxLruOps
    /\ LET stamped == [lru_used EXCEPT ![key] = lru_time + 1]
           put == PutWithin(lru, lru_cap, key, value)
           removed == (CacheKeys(lru) \cup {key}) \ CacheKeys(put)
       IN /\ lru' = put
          /\ lru_time' = lru_time + 1
          /\ lru_used' = [k \in LruKeys |-> IF k \in removed THEN 0 ELSE stamped[k]]
          /\ lrures' = [op |-> "put", key |-> key, before |-> KeyOrder(lru),
                        oldest |-> Oldest(CacheWithout(lru, key), lru_used),
                        out |-> IF removed = {} THEN 0 ELSE CHOOSE k \in removed : TRUE]
    /\ UNCHANGED lru_cap

\* invalidate
LruInvalidate(key) ==
    /\ lru_cap > 0
    /\ lru' = CacheWithout(lru, key)
    /\ lru_used' = [lru_used EXCEPT ![key] = 0]
    /\ lrures' = [op |-> "invalidate", key |-> key, before |-> KeyOrder(lru), oldest |-> 0,
                  out |-> 0]
    /\ UNCHANGED <<lru_cap, lru_time>>

LruInit ==
    /\ lru_cap = 0
    /\ lru = <<>>
    /\ lru_used = [k \in LruKeys |-> 0]
    /\ lru_time = 0
    /\ lrures = [op |-> "none", key |-> 0, before |-> <<>>, oldest |-> 0, out |-> 0]

otherThanLru == <<txVars, facVars, rwVars, blkVars, storeVars, jrnVars, treeVars, ptrVars, idxVars, colVars, ccVars>>

LruNext ==
    \/ \E capacity \in 1..MaxCapacity : NewLRUCache(capacity) /\ UNCHANGED otherThanLru
    \/ \E key \in LruKeys :
          \/ LruGet(key) /\ UNCHANGED otherThanLru
          \/ \E value \in 1..2 : LruPut(key, value) /\ UNCHANGED otherThanLru
          \/ LruInvalidate(key) /\ UNCHANGED otherThanLru

\* ---------------------------------------------------------------- collections
\* Part 11: CollectionMetadataFilestore (src/collection_metadata_filestore.py),
\* a JSONFilestore of collection descriptors.  As in part 5 the per-key lock
\* of the inherited create and delete is granted.

CollectionIds == 1..MaxCollections
CollectionNames == {"users", "orders"}
NoCollection == [name |-> "", enforce_schema |-> FALSE]

\* the ids of the collections that carry the name
Named(name) == {c \in CollectionIds : col_data[c] # NoCollection /\ col_data[c].name = name}

\* create_collection: the descriptor is passed to create, which takes the
\* next id; nothing looks for the name among the stored descriptors, and
\* create never raises DocumentAlreadyExistsError
CreateCollection(name, enforce_schema) ==
    /\ KeyLockGranted
    /\ col_next_id \in CollectionIds
    /\ col_data' = [col_data EXCEPT ![col_next_id] =
                        [name |-> name, enforce_schema |-> enforce_schema]]
    /\ col_next_id' = col_next_id + 1
    /\ colres' = [op |-> "create_collection", name |-> name, existed |-> Named(name) # {},
                  out |-> "ok", id |-> col_next_id]

\* delete_collection
DeleteCollection(collection_id) ==
    /\ KeyLockGranted
    /\ col_data' = [col_data EXCEPT ![collection_id] = NoCollection]
    /\ colres' = [op |-> "delete_collection", name |-> "", existed |-> FALSE,
                  out |-> IF col_data[collection_id] = NoCollection
                          THEN "CollectionNotFoundError" ELSE "ok",
                  id |-> collection_id]
    /\ UNCHANGED col_next_id

ColInit ==
    /\ col_data = [c \in CollectionIds |-> NoCollection]
    /\ col_next_id = 1
    /\ colres = [op |-> "none", name |-> "", existed |-> FALSE, out |-> "none", id |-> 0]

otherThanCol == <<txVars, facVars, rwVars, blkVars, storeVars, jrnVars, treeVars, ptrVars, idxVars, lruVars, ccVars>>

ColNext ==
    \/ \E name \in CollectionNames, enforce_schema \in BOOLEAN :
          CreateCollection(name, enforce_schema) /\ UNCHANGED otherThanCol
    \/ \E collection_id \in CollectionIds :
          DeleteCollection(collection_id) /\ UNCHANGED otherThanCol

(***************************************************************************)
(* Part 12: EnhancedFilestore.create_collection (src/enhanced_filestore.py)*)
(* over the collection store and the index manager.                        *)
(***************************************************************************)
Fields == {"f", "g"}

\* schema_definition: the field names in the order the dict yields them;
\* <<>> is None or an empty dict, both false in `if schema_definition`
SchemaDefinitions == {<<>>, <<"f">>, <<"g">>, <<"f", "g">>, <<"g", "f">>}

\* f"{name}_{field}"
IndexNameOf(name, field) ==
    CASE name = "users" /\ field = "f" -> "users_f"
      [] name = "users" /\ field = "g" -> "users_g"
      [] name = "orders" /\ field = "f" -> "orders_f"
      [] OTHER -> "orders_g"

\* `for field in schema_definition: await self.index_manager.create_index(...)`
\* with the default is_compound and filter_condition: an index is added per
\* field until create_index finds the name taken and raises IndexException
RECURSIVE CreateFieldIndexes(_, _, _)
CreateFieldIndexes(indexes, name, fields) ==
    IF fields = <<>>
    THEN [indexes |-> indexes, err |-> "none"]
    ELSE LET index_name == IndexNameOf(name, Head(fields)) IN
         IF index_name \in DOMAIN indexes
         THEN [indexes |-> indexes, err |-> "IndexException"]
         ELSE CreateFieldIndexes(WithEntry(indexes, index_name,
                                           [keys |-> <<>>, filter |-> "none"]),
                                 name, Tail(fields))

\* the except clauses of create_collection
CreateCollectionRaises(e) ==
    IF IsInstance(e, "CollectionAlreadyExistsError") THEN e
    ELSE IF IsInstance(e, "SchemaException") THEN "SchemaException"
    ELSE IF IsInstance(e, "Exception") THEN "CollectionException" ELSE e

NoCreate == [name |-> "", out |-> "none", id |-> 0, col_before |-> <<>>, idx_before |-> {}]

\* create_collection of the facade: the descriptor is stored, then the
\* indexes of the fields are created; an exception leaves through the except
\* clauses, which undo nothing
FacadeCreateCollection(name, schema_definition, enforce_schema) ==
    /\ im_config.made
    /\ CreateCollection(name, enforce_schema)
    /\ LET r == IF schema_definition # <<>> /\ enforce_schema
                THEN CreateFieldIndexes(im_indexes, name, schema_definition)
                ELSE [indexes |-> im_indexes, err |-> "none"]
       IN /\ im_indexes' = r.indexes
          /\ ccres' = [name |-> name,
                       out |-> IF r.err = "none" THEN "ok" ELSE CreateCollectionRaises(r.err),
                       id |-> IF r.err = "none" THEN col_next_id ELSE 0,
                       col_before |-> col_data,
                       idx_before |-> DOMAIN im_indexes]
    /\ UNCHANGED <<im_config, im_ref_indexes, im_text_indexes, im_queue, im_putters,
                   im_worker, im_acked, im_calls, imres>>

CcInit == ccres = NoCreate

otherThanCc == <<txVars, facVars, rwVars, blkVars, storeVars, jrnVars, treeVars, ptrVars,
                 lruVars>>

CcNext ==
    \/ \E flags \in SUBSET {"enable_compound_indexes"} :
          NewIndexManager(flags) /\ UNCHANGED <<otherThanCc, colVars, ccVars>>
    \/ \E name \in CollectionNames, schema_definition \in SchemaDefinitions,
          enforce_schema \in BOOLEAN :
          FacadeCreateCollection(name, schema_definition, enforce_schema)
              /\ UNCHANGED otherThanCc

\* ------------------------------------------------------------ specification
Init == TxInit /\ FacInit /\ RWInit /\ BlocksInit /\ StoreInit /\ JournalInit /\ TreeInit /\ PtrInit /\ IdxInit /\ LruInit /\ ColInit /\ CcInit

\* The transaction manager used directly by client tasks.
Next ==
    \E c \in Clients :
        \/ StartTransaction(c) /\ UNCHANGED <<facVars, rwVars, libVars>>
        \/ \E L \in Locks : AddOperation(c, GenericOp, L) /\ UNCHANGED <<facVars, rwVars, libVars>>
        \/ LockAcquired(c) /\ UNCHANGED <<facVars, rwVars, libVars>>
        \/ RunTransaction(c) /\ UNCHANGED <<facVars, rwVars, libVars>>
        \/ ApplyReturn(c) /\ UNCHANGED <<facVars, rwVars, libVars>>
        \/ ApplyRaise(c) /\ UNCHANGED <<facVars, rwVars, libVars>>
        \/ Timeout(c) /\ UNCHANGED <<facVars, rwVars, libVars>>
        \/ UndoReturn(c) /\ UNCHANGED <<facVars, rwVars, libVars>>
        \/ UndoRaise(c) /\ UNCHANGED <<facVars, rwVars, libVars>>
        \/ Return(c) /\ UNCHANGED <<facVars, rwVars, libVars>>

Spec == Init /\ [][Next]_vars

\* ReaderWriterLock used by tasks that release what they acquired.
SpecRW == Init /\ [][RWNext]_vars

\* The same under the event loop: a task that was made ready is resumed, and
\* a reader that holds the lock goes on to call release_read.
FairSpecRW ==
    /\ SpecRW
    /\ \A p \in RWTasks : WF_vars(Resume(p)) /\ WF_vars(ReleaseRead(p))

\* The facade called by one task at a time.
SpecFacade == Init /\ [][FacadeNext]_vars

\* the block store under its threads, with one payload writer
SpecBlocks == Init /\ [][BlocksNext]_vars

\* the document store with its compression worker
SpecStore == Init /\ [][StoreNext]_vars

\* the journal on its own
SpecJournal == Init /\ [][JournalNext]_vars

\* the B+ tree on its own
SpecTree == Init /\ [][TreeNext]_vars

\* the pointer table and the tasks that call it
SpecPtr == Init /\ [][PtrNext]_vars

\* the event loop runs a call that can be made or resumed
FairSpecPtr == SpecPtr /\ WF_vars(PtrNext)

SpecIndex == Init /\ [][IdxNext]_vars

\* the event loop runs the worker task and a resumed put whenever they can run
FairSpecIndex ==
    /\ SpecIndex
    /\ WF_vars(ProcessAsyncUpdates /\ UNCHANGED otherThanIdx)
    /\ WF_vars(PutResume /\ UNCHANGED otherThanIdx)

SpecText == Init /\ [][TextNext]_vars

SpecLru == Init /\ [][LruNext]_vars

SpecCollections == Init /\ [][ColNext]_vars

SpecCreateCollection == Init /\ [][CcNext]_vars

\* What the event loop guarantees: a task whose await can complete is resumed,
\* and the timer of wait_for fires unless the awaited call ends first.
FairSpec ==
    /\ Spec
    /\ \A c \in Clients :
        /\ WF_vars(LockAcquired(c) /\ UNCHANGED <<facVars, rwVars, libVars>>)
        /\ WF_vars((ApplyReturn(c) \/ ApplyRaise(c) \/ Timeout(c))
                   /\ UNCHANGED <<facVars, rwVars, libVars>>)
        /\ WF_vars((UndoReturn(c) \/ UndoRaise(c) \/ Timeout(c))
                   /\ UNCHANGED <<facVars, rwVars, libVars>>)

\* ------------------------------------------------------------------ claims
HoldsLock(t, L) == acqCount[t][L] > relCount[t][L]

Ended(t) == endedBy[t] # "none"

RolledBack(t) ==
    /\ undoLog[t] # <<>>
    /\ Len(undoLog[t][Len(undoLog[t])]) = NOps(t)

\* the lock the task suspended in add_operation waits for
WaitsFor(c) == locks[cur[c]][Len(locks[cur[c]])]

InRun(c) == pc[c] \in {"applying", "undoing"}

LockSet(t) == {locks[t][i] : i \in 1..Len(locks[t])}

\* the public operation has returned or raised
FacadeEnded(c) == pc[c] = "done" /\ fres[c] # "none"

\* C1: when atomic_transaction_execute aborts (a staged operation fails, an
\* apply fails or the timeout fires), every document is as it was before the
\* call: the ids the list mentions hold what they held, and no document the
\* call added exists.
C1_AbortedAtomicChangesNothing ==
    \A c \in FacadeClients :
        (fkind[c] = "atomic" /\ FacadeEnded(c) /\ fres[c] # "ok") => docs = snap[c]

\* C5: when an apply fails, the caller of run_transaction and the caller of
\* the public operation that ran it both receive the transaction-aborted
\* error.
C5_FailedApplySurfacesAborted ==
    \A c \in FacadeClients :
        (FacadeEnded(c) /\ endedBy[cur[c]] = "abort") =>
            /\ IsInstance(result[c], "TransactionAbortedError")
            /\ IsInstance(fres[c], "TransactionAbortedError")

\* C2: every lock a transaction acquired in add_operation is released exactly
\* once by the time it ends (commit, rollback after a failed apply, timeout):
\* no release fails on a lock that is not held, no lock is released more often
\* than it was acquired, and none is still held at the end.
C2_LocksReleasedExactlyOnce ==
    \A t \in TxIds :
        /\ ~relErr[t]
        /\ \A L \in Locks : relCount[t][L] <= acqCount[t][L]
        /\ Ended(t) =>
            /\ t \notin transactions
            /\ \A L \in Locks : relCount[t][L] = acqCount[t][L]
            /\ \A L \in LockSet(t) : acqCount[t][L] = 1

C2_Witness ==
    \E t \in TxIds :
        /\ endedBy[t] = "timeout"
        /\ Len(undoLog[t]) = 2
        /\ relCount[t]["A"] = 1 /\ relCount[t]["B"] = 1

\* C3: the applies of a transaction are called in append order, every pass of
\* rollback() calls the undo actions in exactly the reverse of append order,
\* and the rollback after a failed apply is one complete such pass.
C3_ApplyInOrderUndoReversed ==
    \A t \in TxIds :
        /\ Len(applyLog[t]) <= NOps(t)
        /\ \A i \in 1..Len(applyLog[t]) : applyLog[t][i] = i
        /\ \A p \in 1..Len(undoLog[t]) :
            /\ Len(undoLog[t][p]) <= NOps(t)
            /\ \A i \in 1..Len(undoLog[t][p]) : undoLog[t][p][i] = NOps(t) + 1 - i
        /\ endedBy[t] = "abort" =>
            /\ Len(undoLog[t]) = 1
            /\ Len(undoLog[t][1]) = NOps(t)

C3_Witness ==
    \E t \in TxIds :
        /\ endedBy[t] = "abort"
        /\ applyLog[t] = <<1, 2>>
        /\ undoLog[t] = <<(<<2, 1>>)>>

\* C4: when run_transaction exceeds the timeout, the transaction is rolled
\* back, its locks are released, and the caller of run_transaction receives
\* the deadlock-detected error.
C4_TimeoutSurfacesDeadlockDetected ==
    \A c \in Clients :
        (pc[c] = "done" /\ endedBy[cur[c]] = "timeout") =>
            /\ RolledBack(cur[c])
            /\ \A L \in Locks : ~HoldsLock(cur[c], L)
            /\ IsInstance(result[c], "DeadlockDetectedError")

\* two tasks suspended in add_operation, each waiting for a lock the other's
\* transaction holds
Deadlocked ==
    \E c1, c2 \in Clients :
        /\ c1 # c2
        /\ pc[c1] = "lockwait" /\ pc[c2] = "lockwait"
        /\ HoldsLock(cur[c2], WaitsFor(c1))
        /\ HoldsLock(cur[c1], WaitsFor(c2))

\* C6: two transactions that acquire the same two locks in opposite orders do
\* not stay blocked forever: the timeout aborts one of them and releases its
\* locks, so the wait-for cycle ends.
C6_DeadlockIsBroken == Deadlocked ~> ~Deadlocked

\* C7: transactions guarded by the same lock are serialized: a lock is held
\* by at most one transaction at a time (the add_operation of a second one
\* completes only after the first has released it at commit or rollback), so
\* two transactions that are running applies or undos share no lock.
C7_SameLockSerialized ==
    /\ \A L \in Locks : \A t1, t2 \in TxIds :
        (HoldsLock(t1, L) /\ HoldsLock(t2, L)) => t1 = t2
    /\ \A c \in Clients :
        InRun(c) => \A L \in LockSet(cur[c]) : HoldsLock(cur[c], L)
    /\ \A c1, c2 \in Clients :
        (c1 # c2 /\ InRun(c1) /\ InRun(c2)) =>
            LockSet(cur[c1]) \cap LockSet(cur[c2]) = {}

C7_Witness ==
    \E c1, c2 \in Clients :
        /\ c1 # c2
        /\ pc[c1] = "undoing"
        /\ pc[c2] = "lockwait"
        /\ WaitsFor(c2) \in LockSet(cur[c1])

\* C8: the ids returned by start_transaction are strictly increasing, so none
\* is returned twice, also after earlier transactions committed or rolled back.
C8_TransactionIdsIncrease ==
    \A i, j \in 1..Len(issued) : i < j => issued[i] < issued[j]

C8_Witness ==
    /\ Len(issued) >= 2
    /\ issued[1] \notin transactions
    /\ issued[Len(issued)] \in transactions

\* acquire_read returned and release_read has not completed
HoldsRead(p) == rwpc[p] \in {"reading", "rr_lock"}

\* acquire_write returned and release_write has not been called
HoldsWrite(p) == rwpc[p] = "writing"

\* C9: while a task holds the write side, no other task holds the read side
\* or the write side.
C9_WriterExcludesAll ==
    \A p, q \in RWTasks :
        (p # q /\ HoldsWrite(p)) => ~HoldsRead(q) /\ ~HoldsWrite(q)

\* no task holds or waits for the write side
NoWriterAround ==
    /\ writers = 0
    /\ \A q \in RWTasks : rwpc[q] \notin {"aw_lock", "aw_event", "aw_woken", "writing"}

\* C10: while readers hold the lock and no writer holds or waits for it, a
\* task that called acquire_read is not kept waiting for those readers.
C10_ReadersShare ==
    \A p \in RWTasks :
        ((\E q \in RWTasks : q # p /\ rwpc[q] = "reading") /\ NoWriterAround)
            => rwpc[p] \notin {"ar_event", "ar_lock"}

\* the writer counted itself and awaits the event inside acquire_write
WaitsForReaders(p) == rwpc[p] = "aw_event"

\* C11: a writer that waits in acquire_write for the active readers to drain
\* eventually holds the write side: the readers' release_read calls complete
\* and the last of them wakes the writer.
C11_WaitingWriterAcquires ==
    \A p \in RWTasks : WaitsForReaders(p) ~> HoldsWrite(p)

\* C12: the bytes reassembled from the blocks of a payload equal the bytes
\* that were written, and decode to the payload, whatever the payload's
\* length is against the block size.
C12_PayloadRoundTrips ==
    dstep = "done" => rdata = wpayload /\ Decode(rdata) = wpayload

\* the call returned a slot it took from the free list
Reused(w) == alloc_ret[w].kind = "reused"

\* the call returned a slot it made by extending the file
Fresh(w) == alloc_ret[w].kind = "fresh"

C15_JournalWrittenBeforeMutation ==
    \A c \in FacadeClients :
        (fkind[c] # "none" /\ docs # snap[c]) =>
            \E i \in DOMAIN journal : ~LoadsRaises(journal[i])

\* C16: recover() on a journal with a malformed line fails with an error
\* instead of returning the records that precede the line.
C16_RecoverFailsOnMalformedLine ==
    jres.malformed => jres.out = "raised"

\* the inserted pairs with lo <= key <= hi, in ascending key order
RECURSIVE InsertedPairs(_, _)
InsertedPairs(lo, hi) ==
    IF lo > hi THEN <<>>
    ELSE (IF lo \in tinserted THEN <<(<<lo, ValueOf(lo)>>)>> ELSE <<>>)
         \o InsertedPairs(lo + 1, hi)

\* C17: range_query(lo, hi) returns exactly the inserted pairs with
\* lo <= key <= hi in ascending key order, also after splits.
C17_RangeQueryReturnsInserted ==
    tres.op = "range" =>
        tres.err = "none" /\ tres.val = InsertedPairs(tres.a, tres.b)

\* C18: search(k) returns the value inserted with k for every inserted key
\* and absent for every key never inserted.
C18_SearchFindsInserted ==
    tres.op = "search" =>
        tres.val = (IF tres.a \in tinserted THEN ValueOf(tres.a) ELSE 0)

\* the nodes that are part of the tree
RECURSIVE Subtree(_)
Subtree(n) ==
    {n} \cup UNION {Subtree(tnodes[n].children[i]) : i \in DOMAIN tnodes[n].children}

\* C19: every non-root node holds between m-1 and 2m-1 keys, and every
\* internal node has one child more than it has keys.
C19_NodeOccupancy ==
    torder > 0 =>
        \A n \in Subtree(troot) :
            /\ n # troot =>
                /\ Len(tnodes[n].keys) >= torder - 1
                /\ Len(tnodes[n].keys) <= 2 * torder - 1
            /\ ~tnodes[n].leaf => Len(tnodes[n].children) = Len(tnodes[n].keys) + 1

\* a tree of order 2 whose root was split: an internal root over two leaves
C19_Witness ==
    /\ torder = 2
    /\ ~tnodes[troot].leaf
    /\ Cardinality(Subtree(troot)) = 3

\* C21: no slot is held by two outstanding allocations at once (free is only
\* called by a caller on a slot it holds).
C21_NoSlotHeldTwice ==
    \A w \in Workers, v \in Workers : w # v => held[w] \cap held[v] = {}

\* get_pointers returned, for entry e, every pointer passed to add_pointer so
\* far, in the order they were passed, the indirect ones included
ReturnedAll(e) ==
    /\ ptres.entry = e
    /\ ptres.out = pt_issued[e]
    /\ Len(ptres.out) > DirectCapacity

\* C22: once more pointers were passed to add_pointer for an entry than its
\* direct list holds, get_pointers returns all of them in the order they were
\* added.
C22_GetPointersKeepsOrder ==
    \A e \in EntryIds :
        (Len(pt_issued[e]) > DirectCapacity) ~> ReturnedAll(e)

\* C23: every call of add_pointer returns, and the table's mutex is free
\* again afterwards.
C23_AddPointerReturns ==
    \A t \in PtrTasks :
        (ptpc[t] \in {"add_wait", "add_nested"}) ~> (ptpc[t] = "idle" /\ pt_holder # t)

\* the ids in the posting list of every token of the latest text_search
InEveryPosting ==
    {d \in IdxKeys :
        \A i \in 1..Len(imres.query) :
            \E j \in 1..Len(Posting(im_text_indexes[imres.name], imres.query[i])) :
                Posting(im_text_indexes[imres.name], imres.query[i])[j] = d}

\* C24: a text_search that returns gives exactly the document ids that occur
\* in the posting list of every token of the query; a query without tokens
\* gives the empty result.
C24_TextSearchIsIntersection ==
    (imres.op = "text_search" /\ imres.out = "ok") =>
        imres.val = IF imres.query = <<>> THEN {} ELSE InEveryPosting

\* a two-token query answered with document 1 while document 2 is in the
\* posting list of the first token only
C24_Witness ==
    /\ imres.op = "text_search"
    /\ imres.out = "ok"
    /\ Len(imres.query) = 2
    /\ imres.val = {1}
    /\ 2 \in SetOf(Posting(im_text_indexes[imres.name], imres.query[1]))
    /\ 2 \notin SetOf(Posting(im_text_indexes[imres.name], imres.query[2]))

\* C25: a call that asks for an index kind whose flag is disabled fails with a
\* configuration error and creates no index.
C25_DisabledKindIsConfigurationError ==
    ( /\ imres.op \in {"create_index", "create_ref_index", "create_text_index", "text_search"}
      /\ imres.requires \ im_config.flags # {} )
        => (imres.out = "ConfigurationException" /\ ~imres.created)

\* C26: an insert or delete that needs the async queue while the queue is
\* full fails at once with the concurrency (queue-full) error.
C26_FullQueueFailsAtOnce ==
    (imres.op \in {"insert", "delete"} /\ imres.full) => imres.out = "ConcurrencyException"

\* the (name, key, value) triples held by the trees of a dict of indexes
PairsIn(dict) ==
    UNION {{<<name, dict[name].keys[i][1], dict[name].keys[i][2]>> :
               i \in 1..Len(dict[name].keys)} : name \in DOMAIN dict}

\* C27: without async updates a key is in a keyed or ref index only through
\* an insert that returned without error, and a search for such a key returns
\* the document id that was inserted.
C27_ReadYourWrites ==
    ~Enabled("enable_async_updates") =>
        /\ PairsIn(im_indexes) \cup PairsIn(im_ref_indexes) \subseteq im_acked
        /\ (imres.op = "search" /\ \E a \in im_acked : a[1] = imres.name /\ a[2] = imres.key)
               => (imres.out = "ok" /\ \E v \in imres.val : <<imres.name, imres.key, v>> \in im_acked)

\* C28: the cache agrees with the reference recency list: it never holds
\* more keys than its capacity, its order is the order of the latest get-hit
\* or put of each key, a put evicts exactly when the keys would exceed the
\* capacity and then evicts the key with the oldest stamp, and a get of a
\* missing key returns None and leaves the order alone.
C28_LruMatchesReference ==
    /\ Len(lru) <= lru_cap
    /\ \A i, j \in 1..Len(lru) : i < j => lru_used[lru[i][1]] < lru_used[lru[j][1]]
    /\ lrures.op = "put" =>
           LET would == SetOf(lrures.before) \cup {lrures.key}
           IN /\ (lrures.out # 0) <=> (Cardinality(would) > lru_cap)
              /\ lrures.out # 0 => lrures.out = lrures.oldest
              /\ CacheKeys(lru) = would \ {lrures.out}
    /\ (lrures.op = "get" /\ lrures.key \notin SetOf(lrures.before)) =>
           (lrures.out = 0 /\ KeyOrder(lru) = lrures.before)

\* a put into a full cache of capacity 2 evicted a key after four stamped calls
C28_Witness ==
    /\ lrures.op = "put"
    /\ lru_cap = 2
    /\ Len(lrures.before) = 2
    /\ lrures.out # 0
    /\ lrures.out = lrures.oldest
    /\ lru_time = MaxLruOps

C33_QueuedUpdateIsApplied ==
    \A name \in IndexNames, key \in IdxKeys :
        (\E i \in 1..Len(im_queue) : im_queue[i].name = name /\ im_queue[i].key = key)
            ~> (/\ \A i \in 1..Len(im_queue) : ~(im_queue[i].name = name /\ im_queue[i].key = key)
                /\ <<name, key, ValueOf(key)>> \in PairsIn(im_indexes) \cup PairsIn(im_ref_indexes))

\* the operations of transaction t whose apply returned before the apply that
\* raised: every apply called but the last one
AppliedBeforeFailure(t) ==
    {applyLog[t][i] : i \in 1..(Len(applyLog[t]) - 1)}

\* client c is in the rollback that a failed apply of its transaction started
\* (still inside wait_for, and not the rollback after a failed commit)
InRollbackOfFailedApply(c) ==
    /\ pc[c] = "undoing"
    /\ inWaitFor[c]
    /\ ~relErr[cur[c]]

\* C34: when an apply fails, the rollback calls the undo only of operations
\* whose apply completed before the failure: never the undo of the failed
\* operation nor of an operation that was never applied.
C34_UndoOnlyOfApplied ==
    \A c \in Clients :
        InRollbackOfFailedApply(c) =>
            LET t == cur[c]
                pass == undoLog[t][Len(undoLog[t])]
            IN \A j \in 1..Len(pass) : pass[j] \in AppliedBeforeFailure(t)

\* how many times the undo of operation i of transaction t was called, over
\* all the rollback() passes of the transaction
RECURSIVE UndoCalls(_, _, _)
UndoCalls(t, i, n) ==
    IF n = 0 THEN 0 ELSE CountIn(undoLog[t][n], i) + UndoCalls(t, i, n - 1)

\* C35: each undo action of a transaction is called at most once, whenever the
\* timeout fires: also when it fires during the rollback a failed apply started.
C35_UndoAtMostOnce ==
    \A t \in TxIds : \A i \in 1..NOps(t) : UndoCalls(t, i, Len(undoLog[t])) <= 1

\* C36: after a public facade operation has returned or raised, also when it
\* raised before run_transaction was reached, the transaction it started is
\* not in the manager's table of active transactions and holds no lock.
C36_EndedFacadeLeavesNoTransaction ==
    \A c \in FacadeClients :
        FacadeEnded(c) =>
            /\ cur[c] \notin transactions
            /\ \A L \in Locks : ~HoldsLock(cur[c], L)

\* the task is suspended in add_operation on a lock its own transaction holds
WaitsForOwnLock(c) == pc[c] = "lockwait" /\ HoldsLock(cur[c], WaitsFor(c))

\* C37: add_operation with a lock the same transaction already holds
\* completes: the task does not stay suspended on its own lock for ever.
C37_OwnLockDoesNotBlock ==
    \A c \in Clients : WaitsForOwnLock(c) ~> pc[c] # "lockwait"

====
